---------------------------- MODULE Spec2Model ----------------------------
(***************************************************************************)
(* mcpsol: schema encoders (core/src/json.rs), the page cache              *)
(* (core/src/schema.rs) and the client decoder, aggregator and call        *)
(* builder (client/src/lib.rs).                                            *)
(*                                                                         *)
(* A Rust String / &str / Vec<u8> of text is a sequence of bytes; every    *)
(* text in the model is ASCII, and a text byte is written as the           *)
(* one-character string of that byte ("a", "\"", "\f").  Binary data       *)
(* (discriminators, instruction payloads) are sequences of numbers 0..255. *)
(* Option<T> is a sequence of length 0 (None) or 1 (Some).                 *)
(***************************************************************************)
EXTENDS Integers, Sequences, FiniteSets, TLC

VARIABLES
    schema,         \* the built McpSchema being served
    cached,         \* Option<CachedSchemaPages>: the page cache once from_schema ran
    obs,            \* the last call made on an encoder or the cache and what it returned
    preserve_order, \* whether serde_json is built with its preserve_order feature
    serverMode,     \* "native": the program serves its schema; "hostile": any page at all
    client,         \* list_tools_full: its position, its locals and its result
    rpc,            \* the simulate-transaction call in flight: request or response
    fetches,        \* the cursors list_tools_page was called with, in call order
    pages,          \* what each list_tools_page call that succeeded returned
    failedAt,       \* the number of the list_tools_page call that failed, 0 if none
    parsed,         \* the ParsedSchema the client holds: decoded, or given to build_instruction
    built,          \* the last build_instruction or ParsedTool accessor call and its result
    callers,        \* the threads inside get_cached_pages / the list_tools arm
    authoring       \* the McpToolBuilder being written and the Tool built from it

pagesVars == <<schema, cached, obs>>
clientVars == <<preserve_order, serverMode, client, rpc, fetches, pages, failedAt>>
buildVars == <<parsed, built>>
programVars == <<callers, authoring>>
vars == <<schema, cached, obs, preserve_order, serverMode, client, rpc, fetches, pages,
          failedAt, parsed, built, callers, authoring>>

None == <<>>
Some(x) == <<x>>
IsSome(o) == Len(o) = 1
Unwrap(o) == o[1]

Max(a, b) == IF a >= b THEN a ELSE b

RECURSIVE Concat(_)
\* The concatenation of a sequence of sequences.
Concat(ss) == IF ss = <<>> THEN <<>> ELSE Head(ss) \o Concat(Tail(ss))

AsciiPrintable == <<
    " ", "!", "\"", "#", "$", "%", "&", "'", "(", ")", "*", "+", ",", "-", ".", "/",
    "0", "1", "2", "3", "4", "5", "6", "7", "8", "9", ":", ";", "<", "=", ">", "?",
    "@", "A", "B", "C", "D", "E", "F", "G", "H", "I", "J", "K", "L", "M", "N", "O",
    "P", "Q", "R", "S", "T", "U", "V", "W", "X", "Y", "Z", "[", "\\", "]", "^", "_",
    "",  "a", "b", "c", "d", "e", "f", "g", "h", "i", "j", "k", "l", "m", "n", "o",
    "p", "q", "r", "s", "t", "u", "v", "w", "x", "y", "z", "{", "|", "}", "~" >>

\* The byte value of a text byte.  AsciiPrintable lists the bytes 32..126 in
\* order; the grave accent (96) cannot be written and no text here holds it.
Code(c) ==
    CASE c = "\t" -> 9
      [] c = "\n" -> 10
      [] c = "\f" -> 12
      [] c = "\r" -> 13
      [] OTHER    -> 31 + (CHOOSE i \in 1..Len(AsciiPrintable) : AsciiPrintable[i] = c)

\* str::as_bytes: the bytes of a text.
as_bytes(value) == [i \in 1..Len(value) |-> Code(value[i])]

(***************************************************************************)
(* Bounds of the model.                                                    *)
(***************************************************************************)
MaxTools == 3        \* tools in a schema served by the encoder / cache
MaxThreads == 2      \* threads that call get_cached_pages
MaxCalls == 2        \* list_tools instructions one thread processes
Threads == 1..MaxThreads
MaxSmallN == 3       \* list_tools_full: the server holds 0..MaxSmallN tools, or
CapMargin == 2       \* a number within CapMargin of the two sides of the safety cap

(***************************************************************************)
(* core/src/lib.rs                                                         *)
(***************************************************************************)
PROTOCOL_VERSION == <<"2", "0", "2", "4", "-", "1", "1", "-", "0", "5">>

LIST_TOOLS_DISCRIMINATOR == <<66, 25, 94, 106, 85, 253, 65, 192>>

(***************************************************************************)
(* core/src/discriminator.rs                                               *)
(***************************************************************************)
\* A u32 is the pair <<high, low>> of its 16-bit halves.
\* The initial hash value of SHA-256.
SHA256_H0 == <<
    <<27145, 58983>>, <<47975, 44677>>, <<15470, 62322>>, <<42319, 62778>>,
    <<20750, 21119>>, <<39685, 26764>>, <<8067, 55723>>, <<23520, 52505>> >>

\* The round constants of SHA-256.
SHA256_K == <<
    <<17034, 12184>>, <<28983, 17553>>, <<46528, 64463>>, <<59829, 56229>>,
    <<14678, 49755>>, <<23025, 4593>>, <<37439, 33444>>, <<43804, 24277>>,
    <<55303, 43672>>, <<4739, 23297>>, <<9265, 34238>>, <<21772, 32195>>,
    <<29374, 23924>>, <<32990, 45566>>, <<39900, 1703>>, <<49563, 61812>>,
    <<58523, 27073>>, <<61374, 18310>>, <<4033, 40390>>, <<9228, 41420>>,
    <<11753, 11375>>, <<19060, 33962>>, <<23728, 43484>>, <<30457, 35034>>,
    <<38974, 20818>>, <<43057, 50797>>, <<45059, 10184>>, <<48985, 32711>>,
    <<50912, 3059>>, <<54695, 37191>>, <<1738, 25425>>, <<5161, 10599>>,
    <<10167, 2693>>, <<11803, 8504>>, <<19756, 28156>>, <<21304, 3347>>,
    <<25866, 29524>>, <<30314, 2747>>, <<33218, 51502>>, <<37490, 11397>>,
    <<41663, 59553>>, <<43034, 26187>>, <<49739, 35696>>, <<51052, 20899>>,
    <<53650, 59417>>, <<54937, 1572>>, <<62478, 13701>>, <<4202, 41072>>,
    <<6564, 49430>>, <<7735, 27656>>, <<10056, 30540>>, <<13488, 48309>>,
    <<14620, 3251>>, <<20184, 43594>>, <<23452, 51791>>, <<26670, 28659>>,
    <<29839, 33518>>, <<30885, 25455>>, <<33992, 30740>>, <<36039, 520>>,
    <<37054, 65530>>, <<42064, 27883>>, <<48889, 41975>>, <<50801, 30962>> >>

\* i ^ j and i & j on 4-bit numbers.
Xor4 ==
    [i \in 0..15 |-> [j \in 0..15 |->
        8 * (((i \div 8) + (j \div 8)) % 2) + 4 * (((i \div 4) + (j \div 4)) % 2)
        + 2 * (((i \div 2) + (j \div 2)) % 2) + ((i + j) % 2)]]

And4 ==
    [i \in 0..15 |-> [j \in 0..15 |->
        8 * ((i \div 8) * (j \div 8)) + 4 * (((i \div 4) % 2) * ((j \div 4) % 2))
        + 2 * (((i \div 2) % 2) * ((j \div 2) % 2)) + ((i % 2) * (j % 2))]]

\* A bitwise operation on 16-bit numbers, nibble by nibble.
Nibbles(op4, x, y) ==
    4096 * op4[x \div 4096][y \div 4096] + 256 * op4[(x \div 256) % 16][(y \div 256) % 16]
    + 16 * op4[(x \div 16) % 16][(y \div 16) % 16] + op4[x % 16][y % 16]

Xor(a, b) == <<Nibbles(Xor4, a[1], b[1]), Nibbles(Xor4, a[2], b[2])>>

And(a, b) == <<Nibbles(And4, a[1], b[1]), Nibbles(And4, a[2], b[2])>>

Not(a) == <<65535 - a[1], 65535 - a[2]>>

\* a.rotate_right(n).
RotR(a, n) ==
    IF n >= 16 THEN <<(a[2] \div 2 ^ (n - 16)) + (a[1] % 2 ^ (n - 16)) * 2 ^ (32 - n),
                      (a[1] \div 2 ^ (n - 16)) + (a[2] % 2 ^ (n - 16)) * 2 ^ (32 - n)>>
    ELSE <<(a[1] \div 2 ^ n) + (a[2] % 2 ^ n) * 2 ^ (16 - n),
           (a[2] \div 2 ^ n) + (a[1] % 2 ^ n) * 2 ^ (16 - n)>>

\* a >> n, for n < 16.
ShR(a, n) == <<a[1] \div 2 ^ n, (a[2] \div 2 ^ n) + (a[1] % 2 ^ n) * 2 ^ (16 - n)>>

\* a.wrapping_add(b).
Add(a, b) ==
    <<(a[1] + b[1] + ((a[2] + b[2]) \div 65536)) % 65536, (a[2] + b[2]) % 65536>>

Ch(x, y, z) == Xor(And(x, y), And(Not(x), z))

Maj(x, y, z) == Xor(Xor(And(x, y), And(x, z)), And(y, z))

BigSigma0(x) == Xor(Xor(RotR(x, 2), RotR(x, 13)), RotR(x, 22))

BigSigma1(x) == Xor(Xor(RotR(x, 6), RotR(x, 11)), RotR(x, 25))

SmallSigma0(x) == Xor(Xor(RotR(x, 7), RotR(x, 18)), ShR(x, 3))

SmallSigma1(x) == Xor(Xor(RotR(x, 17), RotR(x, 19)), ShR(x, 10))

\* The message with its padding: 0x80, zeros up to 56 mod 64, and the bit
\* length as a 64-bit big-endian number (every message of the model is
\* shorter than 2^16 bits).
Padded(msg) ==
    LET zeros == (119 - Len(msg)) % 64
        bits  == 8 * Len(msg)
    IN  msg \o <<128>> \o [i \in 1..zeros |-> 0]
            \o <<0, 0, 0, 0, 0, 0, bits \div 256, bits % 256>>

\* Word j (1..16) of the 64-byte block that starts after byte "off".
BlockWord(m, off, j) ==
    <<256 * m[off + 4 * j - 3] + m[off + 4 * j - 2],
      256 * m[off + 4 * j - 1] + m[off + 4 * j]>>

RECURSIVE Extend(_, _)
\* The message schedule extended to n words.
Extend(w, n) ==
    IF Len(w) >= n THEN w
    ELSE LET t == Len(w) + 1 IN
         Extend(Append(w, Add(Add(SmallSigma1(w[t - 2]), w[t - 7]),
                              Add(SmallSigma0(w[t - 15]), w[t - 16]))), n)

RECURSIVE Schedule(_)
\* The message schedule of a block, 16 words extended to 64, eight at a time.
Schedule(w) == IF Len(w) >= 64 THEN w ELSE Schedule(Extend(w, Len(w) + 8))

\* One round of the compression function on the working variables
\* v = <<a, b, c, d, e, f, g, h>>, with kw = K[t] + W[t].
Round(v, kw) ==
    LET t1 == Add(Add(Add(v[8], BigSigma1(v[5])), Ch(v[5], v[6], v[7])), kw)
        t2 == Add(BigSigma0(v[1]), Maj(v[1], v[2], v[3]))
    IN  <<Add(t1, t2), v[1], v[2], v[3], Add(v[4], t1), v[5], v[6], v[7]>>

RECURSIVE Rounds(_, _, _, _)
\* Rounds t..last.
Rounds(v, kw, t, last) ==
    IF t > last \/ Len(v) # 8 THEN v
    ELSE Rounds(Round(v, kw[t]), kw, t + 1, last)

RECURSIVE AllRounds(_, _, _)
\* Rounds t..64, eight at a time.
AllRounds(v, kw, t) ==
    IF t > 64 \/ Len(v) # 8 THEN v
    ELSE AllRounds(Rounds(v, kw, t, t + 7), kw, t + 8)

\* The hash value h after a block: each word plus the working variable the
\* rounds left.
Feed(h, v) ==
    <<Add(h[1], v[1]), Add(h[2], v[2]), Add(h[3], v[3]), Add(h[4], v[4]),
      Add(h[5], v[5]), Add(h[6], v[6]), Add(h[7], v[7]), Add(h[8], v[8])>>

\* The hash value after the block with the message schedule w.
Block(h, w) == Feed(h, AllRounds(h, [t \in 1..64 |-> Add(SHA256_K[t], w[t])], 1))

RECURSIVE Compress(_, _, _)
\* The hash value after the blocks of m from byte "off" on.
Compress(h, m, off) ==
    IF off >= Len(m) \/ Len(h) # 8 THEN h
    ELSE Compress(Block(h, Schedule([j \in 1..16 |-> BlockWord(m, off, j)])), m, off + 64)

\* The four bytes of a word, big-endian.
WordBytes(x) == <<x[1] \div 256, x[1] % 256, x[2] \div 256, x[2] % 256>>

\* The 32 bytes of the hash value h.
Digest(h) ==
    WordBytes(h[1]) \o WordBytes(h[2]) \o WordBytes(h[3]) \o WordBytes(h[4])
        \o WordBytes(h[5]) \o WordBytes(h[6]) \o WordBytes(h[7]) \o WordBytes(h[8])

\* Sha256::new(), update(msg), finalize().
sha256(msg) == Digest(Compress(SHA256_H0, Padded(msg), 0))

\* Sha256 of the preimage's bytes, the first 8 bytes of the digest.
hash_to_discriminator(preimage) ==
    SubSeq(sha256([i \in 1..Len(preimage) |-> Code(preimage[i])]), 1, 8)

\* The name hashed without its namespace.
global_preimage_NoNamespace(name) == name

\* format!("global:{}", name).
global_preimage(name) == <<"g", "l", "o", "b", "a", "l", ":">> \o name

\* hash_to_discriminator(global_preimage(name)) for the tool names of the
\* model, tabulated.
DiscriminatorTable == <<
    << <<"l", "i", "s", "t", "_", "t", "o", "o", "l", "s">>,
       <<66, 25, 94, 106, 85, 253, 65, 192>> >>,
    << <<"i", "n", "i", "t">>,   <<220, 59, 207, 236, 108, 250, 47, 100>> >>,
    << <<"q", "\"">>,            <<0, 149, 115, 128, 15, 132, 220, 137>> >>,
    << <<"b", "\\", "\\">>,      <<188, 175, 225, 192, 57, 240, 235, 93>> >>,
    << <<"x", "\f">>,            <<76, 93, 192, 38, 198, 115, 203, 108>> >>,
    << <<"t", "0">>,             <<36, 56, 165, 101, 19, 187, 32, 197>> >>,
    << <<"t", "1">>,             <<236, 119, 109, 173, 103, 110, 66, 125>> >>,
    << <<"p", "a", "y">>,        <<119, 18, 216, 65, 192, 117, 122, 220>> >>,
    << <<"t", "r", "a", "n", "s", "f", "e", "r">>,
       <<163, 52, 200, 231, 140, 3, 69, 186>> >> >>

instruction_discriminator(name) ==
    LET i == CHOOSE k \in 1..Len(DiscriminatorTable) : DiscriminatorTable[k][1] = name
    IN  DiscriminatorTable[i][2]

HEX_CHARS == <<"0", "1", "2", "3", "4", "5", "6", "7", "8", "9", "a", "b", "c", "d", "e", "f">>

RECURSIVE discriminator_to_hex(_)
discriminator_to_hex(disc) ==
    IF disc = <<>> THEN <<>>
    ELSE <<HEX_CHARS[(Head(disc) \div 16) + 1], HEX_CHARS[(Head(disc) % 16) + 1]>>
         \o discriminator_to_hex(Tail(disc))

(***************************************************************************)
(* core/src/schema.rs: the data model and its builders                     *)
(***************************************************************************)
suffix(acc) ==
    CASE acc.is_signer /\ acc.is_writable   -> <<"_", "s", "w">>
      [] acc.is_signer /\ ~acc.is_writable  -> <<"_", "s">>
      [] ~acc.is_signer /\ acc.is_writable  -> <<"_", "w">>
      [] OTHER                              -> <<>>

ArgTypes == {"U8", "U16", "U32", "U64", "U128", "I8", "I16", "I32", "I64", "I128",
             "Bool", "Pubkey", "String", "Bytes"}

compact_name(arg_type) ==
    CASE arg_type = "U8"     -> <<"u", "8">>
      [] arg_type = "U16"    -> <<"u", "1", "6">>
      [] arg_type = "U32"    -> <<"u", "3", "2">>
      [] arg_type = "U64"    -> <<"u", "6", "4">>
      [] arg_type = "U128"   -> <<"u", "1", "2", "8">>
      [] arg_type = "I8"     -> <<"i", "8">>
      [] arg_type = "I16"    -> <<"i", "1", "6">>
      [] arg_type = "I32"    -> <<"i", "3", "2">>
      [] arg_type = "I64"    -> <<"i", "6", "4">>
      [] arg_type = "I128"   -> <<"i", "1", "2", "8">>
      [] arg_type = "Bool"   -> <<"b", "o", "o", "l">>
      [] arg_type = "Pubkey" -> <<"p", "u", "b", "k", "e", "y">>
      [] arg_type = "String" -> <<"s", "t", "r">>
      [] arg_type = "Bytes"  -> <<"b", "y", "t", "e", "s">>

McpSchemaBuilder_new(name) == [name |-> name, tools |-> <<>>]

add_tool(builder, tool) == [builder EXCEPT !.tools = Append(@, tool)]

McpSchemaBuilder_build(builder) == [name |-> builder.name, tools |-> builder.tools]

McpToolBuilder_new(name) ==
    [name |-> name, description |-> None, accounts |-> <<>>, args |-> <<>>]

description(builder, desc) == [builder EXCEPT !.description = Some(desc)]

account(builder, name, is_signer, is_writable) ==
    [builder EXCEPT !.accounts = Append(@,
        [name |-> name, description |-> None,
         is_signer |-> is_signer, is_writable |-> is_writable])]

account_with_desc(builder, name, desc, is_signer, is_writable) ==
    [builder EXCEPT !.accounts = Append(@,
        [name |-> name, description |-> Some(desc),
         is_signer |-> is_signer, is_writable |-> is_writable])]

signer(builder, name) == account(builder, name, TRUE, FALSE)

writable(builder, name) == account(builder, name, FALSE, TRUE)

signer_writable(builder, name) == account(builder, name, TRUE, TRUE)

arg(builder, name, arg_type) ==
    [builder EXCEPT !.args = Append(@,
        [name |-> name, description |-> None, arg_type |-> arg_type])]

arg_desc(builder, name, desc, arg_type) ==
    [builder EXCEPT !.args = Append(@,
        [name |-> name, description |-> Some(desc), arg_type |-> arg_type])]

signer_desc(builder, name, desc) == account_with_desc(builder, name, desc, TRUE, FALSE)

writable_desc(builder, name, desc) == account_with_desc(builder, name, desc, FALSE, TRUE)

signer_writable_desc(builder, name, desc) ==
    account_with_desc(builder, name, desc, TRUE, TRUE)

\* build() with a discriminator that does not come from the name.
McpToolBuilder_build_FixedDiscriminator(builder) ==
    [discriminator |-> LIST_TOOLS_DISCRIMINATOR,
     name          |-> builder.name,
     description   |-> builder.description,
     accounts      |-> builder.accounts,
     args          |-> builder.args]

McpToolBuilder_build(builder) ==
    [discriminator |-> instruction_discriminator(builder.name),
     name          |-> builder.name,
     description   |-> builder.description,
     accounts      |-> builder.accounts,
     args          |-> builder.args]


(***************************************************************************)
(* core/src/json.rs: the paginated (verbose) encoder                       *)
(***************************************************************************)
RECURSIVE escape_json_into(_)
\* The text escape_json_into appends to its buffer for the string s.
escape_json_into(s) ==
    IF s = <<>> THEN <<>>
    ELSE LET c == Head(s) IN
         (CASE c = "\"" -> <<"\\", "\"">>
            [] c = "\\" -> <<"\\", "\\">>
            [] c = "\n" -> <<"\\", "n">>
            [] c = "\r" -> <<"\\", "r">>
            [] c = "\t" -> <<"\\", "t">>
            [] OTHER    -> <<c>>)
         \o escape_json_into(Tail(s))

DigitChar(d) == HEX_CHARS[d + 1]

RECURSIVE DecimalString(_)
\* The decimal numeral of a natural number.
DecimalString(n) ==
    IF n < 10 THEN <<DigitChar(n)>> ELSE Append(DecimalString(n \div 10), DigitChar(n % 10))

RECURSIVE format_cursor_loop(_, _, _)
\* The while loop of format_cursor; i counts the free bytes left in buf.
format_cursor_loop(num, i, buf) ==
    IF num > 0 /\ i > 0
    THEN format_cursor_loop(num \div 10, i - 1, [buf EXCEPT ![i] = DigitChar(num % 10)])
    ELSE SubSeq(buf, i + 1, 3)

format_cursor(n) ==
    IF n = 0 THEN <<"0">>
    ELSE format_cursor_loop(n, 3, <<"0", "0", "0">>)

RECURSIVE verbose_accounts(_, _)
\* The "for acc in &tool.accounts" loop of generate_verbose_tool.
verbose_accounts(accounts, first) ==
    IF accounts = <<>> THEN <<>>
    ELSE LET acc == Head(accounts) IN
         Concat(<<
            IF first THEN <<>> ELSE <<",">>,
            <<"\"">>, escape_json_into(acc.name),
            <<"\"", ":", "{", "\"", "t", "y", "p", "e", "\"", ":",
              "\"", "p", "u", "b", "k", "e", "y", "\"">>,
            IF acc.is_signer
            THEN <<",", "\"", "s", "i", "g", "n", "e", "r", "\"", ":", "t", "r", "u", "e">>
            ELSE <<>>,
            IF acc.is_writable
            THEN <<",", "\"", "w", "r", "i", "t", "a", "b", "l", "e", "\"", ":",
                   "t", "r", "u", "e">>
            ELSE <<>>,
            IF IsSome(acc.description)
            THEN <<",", "\"", "d", "e", "s", "c", "r", "i", "p", "t", "i", "o", "n",
                   "\"", ":", "\"">>
                 \o escape_json_into(Unwrap(acc.description)) \o <<"\"">>
            ELSE <<>>,
            <<"}">>,
            verbose_accounts(Tail(accounts), FALSE) >>)

RECURSIVE verbose_args(_, _)
\* The "for arg in &tool.args" loop of generate_verbose_tool.
verbose_args(args, first) ==
    IF args = <<>> THEN <<>>
    ELSE LET a == Head(args) IN
         Concat(<<
            IF first THEN <<>> ELSE <<",">>,
            <<"\"">>, escape_json_into(a.name),
            <<"\"", ":", "{", "\"", "t", "y", "p", "e", "\"", ":", "\"">>,
            compact_name(a.arg_type), <<"\"">>,
            IF IsSome(a.description)
            THEN <<",", "\"", "d", "e", "s", "c", "r", "i", "p", "t", "i", "o", "n",
                   "\"", ":", "\"">>
                 \o escape_json_into(Unwrap(a.description)) \o <<"\"">>
            ELSE <<>>,
            <<"}">>,
            verbose_args(Tail(args), FALSE) >>)

generate_verbose_tool(tool) ==
    Concat(<<
        <<"{", "\"", "n", "a", "m", "e", "\"", ":", "\"">>,
        escape_json_into(tool.name), <<"\"">>,
        IF IsSome(tool.description)
        THEN <<",", "\"", "d", "e", "s", "c", "r", "i", "p", "t", "i", "o", "n",
               "\"", ":", "\"">>
             \o escape_json_into(Unwrap(tool.description)) \o <<"\"">>
        ELSE <<>>,
        <<",", "\"", "d", "i", "s", "c", "r", "i", "m", "i", "n", "a", "t", "o", "r",
          "\"", ":", "\"">>,
        discriminator_to_hex(tool.discriminator), <<"\"">>,
        IF tool.accounts # <<>> \/ tool.args # <<>>
        THEN Concat(<<
                <<",", "\"", "p", "a", "r", "a", "m", "e", "t", "e", "r", "s", "\"", ":", "{">>,
                verbose_accounts(tool.accounts, TRUE),
                verbose_args(tool.args, tool.accounts = <<>>),
                <<"}">> >>)
        ELSE <<>>,
        <<"}">> >>)

\* A lookup that is off by one tool.
tool_at_Next(s, cursor_idx) ==
    IF cursor_idx + 1 < Len(s.tools) THEN Some(s.tools[cursor_idx + 2]) ELSE None

\* schema.tools.get(cursor_idx)
tool_at(s, cursor_idx) ==
    IF cursor_idx < Len(s.tools) THEN Some(s.tools[cursor_idx + 1]) ELSE None

\* A nextCursor on the last page too.
has_next_Inclusive(s, cursor_idx) == cursor_idx < Len(s.tools)

\* "Add nextCursor if more tools exist"
has_next(s, cursor_idx) == cursor_idx + 1 < Len(s.tools)

\* cursor is a u8; cursor_idx = cursor as usize indexes schema.tools from 0.
generate_paginated_schema(s, cursor) ==
    LET cursor_idx == cursor IN
    Concat(<<
        <<"{", "\"", "v", "\"", ":", "\"">>, PROTOCOL_VERSION,
        <<"\"", ",", "\"", "n", "a", "m", "e", "\"", ":", "\"">>,
        escape_json_into(s.name),
        <<"\"", ",", "\"", "t", "o", "o", "l", "s", "\"", ":", "[">>,
        IF IsSome(tool_at(s, cursor_idx))
        THEN generate_verbose_tool(Unwrap(tool_at(s, cursor_idx)))
        ELSE <<>>,
        <<"]">>,
        IF has_next(s, cursor_idx)
        THEN <<",", "\"", "n", "e", "x", "t", "C", "u", "r", "s", "o", "r", "\"", ":", "\"">>
             \o format_cursor(cursor_idx + 1) \o <<"\"">>
        ELSE <<>>,
        <<"}">> >>)

\* String::into_bytes: the same bytes.
generate_paginated_schema_bytes(s, cursor) == generate_paginated_schema(s, cursor)

\* The keys generate_tool_json collects in its "required" vector: for each
\* account the escaped name plus its suffix, then for each arg the escaped
\* name.
compact_keys(tool) ==
    [i \in 1..Len(tool.accounts) |->
        escape_json_into(tool.accounts[i].name) \o suffix(tool.accounts[i])]
    \o [i \in 1..Len(tool.args) |-> escape_json_into(tool.args[i].name)]

\* The type texts written next to the keys: "pubkey" for every account, the
\* compact name of its type for every arg.
compact_types(tool) ==
    [i \in 1..Len(tool.accounts) |-> <<"p", "u", "b", "k", "e", "y">>]
    \o [i \in 1..Len(tool.args) |-> compact_name(tool.args[i].arg_type)]

RECURSIVE compact_properties(_, _, _)
\* The entries of "p": the two loops over accounts and args, sharing "first".
compact_properties(keys, types, first) ==
    IF keys = <<>> THEN <<>>
    ELSE Concat(<<
            IF first THEN <<>> ELSE <<",">>,
            <<"\"">>, Head(keys), <<"\"", ":", "\"">>, Head(types), <<"\"">>,
            compact_properties(Tail(keys), Tail(types), FALSE) >>)

\* "r" with the first key only.
compact_required_FirstOnly(keys, i) ==
    IF keys = <<>> THEN <<>> ELSE <<"\"">> \o Head(keys) \o <<"\"">>

RECURSIVE compact_required(_, _)
\* The elements of "r": the loop over the required vector.
compact_required(keys, i) ==
    IF keys = <<>> THEN <<>>
    ELSE Concat(<<
            IF i > 0 THEN <<",">> ELSE <<>>,
            <<"\"">>, Head(keys), <<"\"">>,
            compact_required(Tail(keys), i + 1) >>)

generate_tool_json(tool) ==
    Concat(<<
        <<"{", "\"", "n", "\"", ":", "\"">>, escape_json_into(tool.name), <<"\"">>,
        IF IsSome(tool.description)
        THEN <<",", "\"", "i", "\"", ":", "\"">>
             \o escape_json_into(Unwrap(tool.description)) \o <<"\"">>
        ELSE <<>>,
        <<",", "\"", "d", "\"", ":", "\"">>,
        discriminator_to_hex(tool.discriminator),
        IF tool.accounts = <<>> /\ tool.args = <<>>
        THEN <<"\"", "}">>
        ELSE Concat(<<
                <<"\"", ",", "\"", "p", "\"", ":", "{">>,
                compact_properties(compact_keys(tool), compact_types(tool), TRUE),
                <<"}", ",", "\"", "r", "\"", ":", "[">>,
                compact_required(compact_keys(tool), 0),
                <<"]", "}">> >>) >>)

RECURSIVE compact_tools(_, _)
\* The loop of generate_compact_schema over schema.tools.
compact_tools(tools, i) ==
    IF tools = <<>> THEN <<>>
    ELSE (IF i > 0 THEN <<",">> ELSE <<>>)
         \o generate_tool_json(Head(tools)) \o compact_tools(Tail(tools), i + 1)

generate_compact_schema(s) ==
    Concat(<<
        <<"{", "\"", "v", "\"", ":", "\"">>, PROTOCOL_VERSION,
        <<"\"", ",", "\"", "n", "a", "m", "e", "\"", ":", "\"">>,
        escape_json_into(s.name),
        <<"\"", ",", "\"", "t", "o", "o", "l", "s", "\"", ":", "[">>,
        compact_tools(s.tools, 0),
        <<"]", "}">> >>)

RECURSIVE SumLen(_, _)
\* The sum of name.len() + each over the accounts or args of a tool.
SumLen(items, each) ==
    IF items = <<>> THEN 0
    ELSE Len(Head(items).name) + each + SumLen(Tail(items), each)

\* estimate_single_tool_size(tool: Option<&McpTool>).
estimate_single_tool_size(tool) ==
    IF ~IsSome(tool) THEN 0
    ELSE LET t == Unwrap(tool) IN
         30 + Len(t.name) + 16
         + (IF IsSome(t.description) THEN Len(Unwrap(t.description)) + 6 ELSE 0)
         + SumLen(t.accounts, 15)
         + SumLen(t.args, 10)

RECURSIVE EstimateTools(_)
\* The loop of estimate_schema_size over schema.tools.
EstimateTools(tools) ==
    IF tools = <<>> THEN 0
    ELSE estimate_single_tool_size(Some(Head(tools))) + EstimateTools(Tail(tools))

estimate_schema_size(s) == 50 + Len(s.name) + EstimateTools(s.tools)

(***************************************************************************)
(* core/src/schema.rs: CachedSchemaPages                                   *)
(***************************************************************************)
U8Max == 255

\* "cursor as u8" for a usize cursor.
AsU8(n) == n % (U8Max + 1)

\* Pages computed for the cursor after the one they are stored under.
from_schema_Shifted(s) ==
    [pages |-> [i \in 1..Max(Len(s.tools), 1) |-> generate_paginated_schema_bytes(s, AsU8(i))]]

from_schema(s) ==
    LET num_pages == Max(Len(s.tools), 1) IN
    [pages |-> [i \in 1..num_pages |-> generate_paginated_schema_bytes(s, AsU8(i - 1))]]

\* An out-of-range cursor answered with the last page.
get_page_Clamped(self, cursor) ==
    IF cursor < Len(self.pages) THEN self.pages[cursor + 1] ELSE self.pages[Len(self.pages)]

\* self.pages.get(cursor as usize).map(|v| v.as_slice()).unwrap_or(&[])
get_page(self, cursor) ==
    IF cursor < Len(self.pages) THEN self.pages[cursor + 1] ELSE <<>>

num_pages(self) == Len(self.pages)


(***************************************************************************)
(* JSON text as serde_json reads it (client/src/lib.rs: the derived        *)
(* Deserialize of ParsedSchema / ParsedTool, serde_json::from_slice).      *)
(*                                                                         *)
(* A value is a record tagged t: "str" (s: the unescaped text), "obj"      *)
(* (m: the members <<key, value>> in document order), "arr" (e: the        *)
(* elements), "bool" (b) or "null".  Number literals, \b and \u escapes    *)
(* are not read: no document of the model holds one.  With strict = TRUE   *)
(* a raw control character inside a string is an error, as in serde_json;  *)
(* strict = FALSE only tells the members of a document apart.              *)
(***************************************************************************)
JStr(x)  == [t |-> "str", s |-> x]
JObj(ms) == [t |-> "obj", m |-> ms]
JArr(es) == [t |-> "arr", e |-> es]
JBool(x) == [t |-> "bool", b |-> x]
JNull    == [t |-> "null"]

JFail == [ok |-> FALSE, v |-> JNull, i |-> 0]
JOk(val, next) == [ok |-> TRUE, v |-> val, i |-> next]

IsWs(c) == c \in {" ", "\t", "\n", "\r"}

\* The control characters (U+0000..U+001F) a text of the model can hold.
IsControl(c) == c \in {"\t", "\n", "\f", "\r"}

RECURSIVE SkipWs(_, _)
SkipWs(s, i) == IF i <= Len(s) /\ IsWs(s[i]) THEN SkipWs(s, i + 1) ELSE i

\* The character an escape sequence \c stands for; <<>> when it is not read.
Unescape(c) ==
    CASE c = "\"" -> <<"\"">>
      [] c = "\\" -> <<"\\">>
      [] c = "/"  -> <<"/">>
      [] c = "n"  -> <<"\n">>
      [] c = "r"  -> <<"\r">>
      [] c = "t"  -> <<"\t">>
      [] c = "f"  -> <<"\f">>
      [] OTHER    -> <<>>

RECURSIVE ParseString(_, _, _, _)
\* The string whose opening quote precedes s[i]; acc is the text read so far.
ParseString(s, i, acc, strict) ==
    IF i > Len(s) THEN JFail
    ELSE IF s[i] = "\"" THEN JOk(JStr(acc), i + 1)
    ELSE IF s[i] = "\\"
         THEN IF i + 1 > Len(s) \/ Unescape(s[i + 1]) = <<>> THEN JFail
              ELSE ParseString(s, i + 2, acc \o Unescape(s[i + 1]), strict)
    ELSE IF strict /\ IsControl(s[i]) THEN JFail
    ELSE ParseString(s, i + 1, Append(acc, s[i]), strict)

\* Whether the text lit starts at s[i].
StartsAt(s, i, lit) == i + Len(lit) - 1 <= Len(s) /\ SubSeq(s, i, i + Len(lit) - 1) = lit

RECURSIVE ParseValue(_, _, _), ParseMembers(_, _, _, _), ParseElements(_, _, _, _)
ParseValue(s, i0, strict) ==
    LET i == SkipWs(s, i0) IN
    IF i > Len(s) THEN JFail
    ELSE CASE s[i] = "\"" -> ParseString(s, i + 1, <<>>, strict)
           [] s[i] = "{"  ->
                LET j == SkipWs(s, i + 1) IN
                IF j <= Len(s) /\ s[j] = "}" THEN JOk(JObj(<<>>), j + 1)
                ELSE ParseMembers(s, j, <<>>, strict)
           [] s[i] = "["  ->
                LET j == SkipWs(s, i + 1) IN
                IF j <= Len(s) /\ s[j] = "]" THEN JOk(JArr(<<>>), j + 1)
                ELSE ParseElements(s, j, <<>>, strict)
           [] StartsAt(s, i, <<"t", "r", "u", "e">>)      -> JOk(JBool(TRUE), i + 4)
           [] StartsAt(s, i, <<"f", "a", "l", "s", "e">>) -> JOk(JBool(FALSE), i + 5)
           [] StartsAt(s, i, <<"n", "u", "l", "l">>)      -> JOk(JNull, i + 4)
           [] OTHER -> JFail

\* The members of an object from s[i] on (a key is due); acc holds those read.
ParseMembers(s, i0, acc, strict) ==
    LET i == SkipWs(s, i0) IN
    IF i > Len(s) \/ s[i] # "\"" THEN JFail
    ELSE LET k == ParseString(s, i + 1, <<>>, strict) IN
         IF ~k.ok THEN JFail
         ELSE LET c == SkipWs(s, k.i) IN
              IF c > Len(s) \/ s[c] # ":" THEN JFail
              ELSE LET v == ParseValue(s, c + 1, strict) IN
                   IF ~v.ok THEN JFail
                   ELSE LET n   == SkipWs(s, v.i)
                            ms  == Append(acc, <<k.v.s, v.v>>)
                        IN  IF n > Len(s) THEN JFail
                            ELSE IF s[n] = "}" THEN JOk(JObj(ms), n + 1)
                            ELSE IF s[n] = "," THEN ParseMembers(s, n + 1, ms, strict)
                            ELSE JFail

\* The elements of an array from s[i] on (a value is due); acc holds those read.
ParseElements(s, i0, acc, strict) ==
    LET v == ParseValue(s, i0, strict) IN
    IF ~v.ok THEN JFail
    ELSE LET n  == SkipWs(s, v.i)
             es == Append(acc, v.v)
         IN  IF n > Len(s) THEN JFail
             ELSE IF s[n] = "]" THEN JOk(JArr(es), n + 1)
             ELSE IF s[n] = "," THEN ParseElements(s, n + 1, es, strict)
             ELSE JFail

\* One JSON document: a value, then nothing but white space.
ParseDocument(s, strict) ==
    LET v == ParseValue(s, 1, strict) IN
    IF v.ok /\ SkipWs(s, v.i) = Len(s) + 1 THEN v ELSE JFail

\* The values of the members of ms whose key is one of keys, in document order.
Members(ms, keys) ==
    LET hit == SelectSeq(ms, LAMBDA kv : kv[1] \in keys)
    IN  [i \in 1..Len(hit) |-> hit[i][2]]

\* Value::get / Map::get on an object read from text: a repeated key keeps
\* its last value.
ObjGet(ms, key) ==
    LET hit == Members(ms, {key}) IN
    IF hit = <<>> THEN None ELSE Some(hit[Len(hit)])


(***************************************************************************)
(* serde_json::Map<String, Value>: the entries <<key, value>> in iteration *)
(* order.  Without the preserve_order feature the map is a BTreeMap        *)
(* (ascending key bytes); with it, an IndexMap (first insertion order).    *)
(* Either way a repeated key keeps its last value.                         *)
(***************************************************************************)
RECURSIVE BytesLess(_, _)
\* a < b as byte strings (Ord for String).
BytesLess(a, b) ==
    IF b = <<>> THEN FALSE
    ELSE IF a = <<>> THEN TRUE
    ELSE IF Head(a) = Head(b) THEN BytesLess(Tail(a), Tail(b))
    ELSE Code(Head(a)) < Code(Head(b))

RECURSIVE SortedKeys(_)
\* The keys of the set ks in ascending order.
SortedKeys(ks) ==
    IF ks = {} THEN <<>>
    ELSE LET k == CHOOSE x \in ks : \A y \in ks \ {x} : BytesLess(x, y)
         IN  <<k>> \o SortedKeys(ks \ {k})

RECURSIVE InsertionKeys(_, _)
\* The keys of the members ms in order of first occurrence; seen holds those met.
InsertionKeys(ms, seen) ==
    IF ms = <<>> THEN <<>>
    ELSE IF Head(ms)[1] \in seen THEN InsertionKeys(Tail(ms), seen)
    ELSE <<Head(ms)[1]>> \o InsertionKeys(Tail(ms), seen \cup {Head(ms)[1]})

MapFromMembers(ms, ordered) ==
    LET ks == IF ordered THEN InsertionKeys(ms, {})
              ELSE SortedKeys({ms[i][1] : i \in 1..Len(ms)})
    IN  [i \in 1..Len(ks) |-> <<ks[i], Unwrap(ObjGet(ms, ks[i]))>>]

(***************************************************************************)
(* client/src/lib.rs: ParsedSchema and ParsedTool as serde derives their   *)
(* Deserialize.  A field is read under its name or an alias; a repeated    *)
(* field is an error, an unknown member is skipped.                        *)
(***************************************************************************)
DeErr == [ok |-> FALSE, val |-> None]
DeOk(x) == [ok |-> TRUE, val |-> Some(x)]

\* A String field that must be present.
de_string(hits) ==
    IF Len(hits) = 1 /\ hits[1].t = "str" THEN DeOk(hits[1].s) ELSE DeErr

\* An Option<String> field: absent or null is None.
de_option_string(hits) ==
    IF hits = <<>> THEN DeOk(None)
    ELSE IF Len(hits) > 1 THEN DeErr
    ELSE IF hits[1].t = "null" THEN DeOk(None)
    ELSE IF hits[1].t = "str" THEN DeOk(Some(hits[1].s))
    ELSE DeErr

\* A Vec<String> field with #[serde(default)].
de_vec_string(hits) ==
    IF hits = <<>> THEN DeOk(<<>>)
    ELSE IF Len(hits) > 1 \/ hits[1].t # "arr" THEN DeErr
    ELSE IF \E i \in 1..Len(hits[1].e) : hits[1].e[i].t # "str" THEN DeErr
    ELSE DeOk([i \in 1..Len(hits[1].e) |-> hits[1].e[i].s])

\* A serde_json::Map field with #[serde(default)].
de_map(hits, ordered) ==
    IF hits = <<>> THEN DeOk(<<>>)
    ELSE IF Len(hits) > 1 \/ hits[1].t # "obj" THEN DeErr
    ELSE DeOk(MapFromMembers(hits[1].m, ordered))

deserialize_ParsedTool(v, ordered) ==
    IF v.t # "obj" THEN DeErr
    ELSE LET nm == de_string(Members(v.m, {<<"n", "a", "m", "e">>, <<"n">>}))
             ds == de_option_string(Members(v.m,
                     {<<"d", "e", "s", "c", "r", "i", "p", "t", "i", "o", "n">>, <<"i">>}))
             dc == de_string(Members(v.m,
                     {<<"d", "i", "s", "c", "r", "i", "m", "i", "n", "a", "t", "o", "r">>,
                      <<"d">>}))
             ps == de_map(Members(v.m,
                     {<<"p", "a", "r", "a", "m", "s">>, <<"p">>,
                      <<"p", "a", "r", "a", "m", "e", "t", "e", "r", "s">>}), ordered)
             rq == de_vec_string(Members(v.m,
                     {<<"r", "e", "q", "u", "i", "r", "e", "d">>, <<"r">>}))
         IN  IF nm.ok /\ ds.ok /\ dc.ok /\ ps.ok /\ rq.ok
             THEN DeOk([name          |-> Unwrap(nm.val),
                        description   |-> Unwrap(ds.val),
                        discriminator |-> Unwrap(dc.val),
                        params        |-> Unwrap(ps.val),
                        required      |-> Unwrap(rq.val)])
             ELSE DeErr

\* The Vec<ParsedTool> field tools, which must be present.
de_vec_tool(hits, ordered) ==
    IF Len(hits) # 1 \/ hits[1].t # "arr" THEN DeErr
    ELSE LET ts == [i \in 1..Len(hits[1].e) |-> deserialize_ParsedTool(hits[1].e[i], ordered)]
         IN  IF \E i \in 1..Len(ts) : ~ts[i].ok THEN DeErr
             ELSE DeOk([i \in 1..Len(ts) |-> Unwrap(ts[i].val)])

deserialize_ParsedSchema(v, ordered) ==
    IF v.t # "obj" THEN DeErr
    ELSE LET vr == de_string(Members(v.m, {<<"v">>}))
             nm == de_string(Members(v.m, {<<"n", "a", "m", "e">>}))
             ts == de_vec_tool(Members(v.m, {<<"t", "o", "o", "l", "s">>}), ordered)
             nc == de_option_string(Members(v.m,
                     {<<"n", "e", "x", "t", "C", "u", "r", "s", "o", "r">>}))
         IN  IF vr.ok /\ nm.ok /\ ts.ok /\ nc.ok
             THEN DeOk([version     |-> Unwrap(vr.val),
                        name        |-> Unwrap(nm.val),
                        tools       |-> Unwrap(ts.val),
                        next_cursor |-> Unwrap(nc.val)])
             ELSE DeErr

\* serde_json::from_slice::<ParsedSchema>(bytes)
from_slice(bytes, ordered) ==
    LET d == ParseDocument(bytes, TRUE) IN
    IF d.ok THEN deserialize_ParsedSchema(d.v, ordered) ELSE DeErr

(***************************************************************************)
(* native/src/lib.rs: the program's list_tools handler                     *)
(***************************************************************************)
\* A handler that ignores the cursor byte.
get_list_tools_cursor_Ignored(data) == 0

\* data.len() >= 8 && data[..8] == LIST_TOOLS_DISCRIMINATOR
is_list_tools(data) == Len(data) >= 8 /\ SubSeq(data, 1, 8) = LIST_TOOLS_DISCRIMINATOR

\* data.get(8).copied().unwrap_or(0)
get_list_tools_cursor(data) == IF Len(data) >= 9 THEN data[9] ELSE 0

\* The return data list_tools_paginated sets.
list_tools_paginated(s, data) ==
    generate_paginated_schema_bytes(s, get_list_tools_cursor(data))

(***************************************************************************)
(* client/src/lib.rs: list_tools_page and list_tools_full                  *)
(***************************************************************************)
SAFETY_CAP == 100

Err(e) == [ok |-> FALSE, err |-> e, val |-> None]
Ok(x) == [ok |-> TRUE, err |-> "", val |-> Some(x)]

\* The cursor byte pushed for every cursor, 0 included.
list_tools_request_AlwaysCursor(cursor) == LIST_TOOLS_DISCRIMINATOR \o <<cursor, cursor>>

\* The instruction data list_tools_page sends for a cursor.
list_tools_request(cursor) ==
    LIST_TOOLS_DISCRIMINATOR \o (IF cursor > 0 THEN <<cursor>> ELSE <<>>)

\* list_tools_page from the answer of the simulation on: resp.outcome is
\* "rpc_error" (get_latest_blockhash or simulate_transaction failed),
\* "no_return_data", "bad_base64" or "data" (resp.data: the return data).
list_tools_page_result(resp, ordered) ==
    CASE resp.outcome = "rpc_error"      -> Err("Rpc")
      [] resp.outcome = "no_return_data" -> Err("NoReturnData")
      [] resp.outcome = "bad_base64"     -> Err("ParseSchema")
      [] OTHER ->
            LET r == from_slice(resp.data, ordered) IN
            IF r.ok THEN Ok(Unwrap(r.val)) ELSE Err("ParseSchema")

\* cursor.saturating_add(1) on a u8.
saturating_add_1(cursor) == IF cursor + 1 > U8Max THEN U8Max ELSE cursor + 1

\* A cap that lets one more iteration through.
cap_reached_Late(cursor) == cursor > SAFETY_CAP + 1

\* "Safety limit to prevent infinite loops"
cap_reached(cursor) == cursor > SAFETY_CAP

\* The tools extended, next_cursor cleared.
extend_schema_ClearCursor(acc, next_page) ==
    [acc EXCEPT !.tools = @ \o next_page.tools, !.next_cursor = None]

\* schema.tools.extend(next_page.tools); schema.next_cursor = next_page.next_cursor
extend_schema(acc, next_page) ==
    [acc EXCEPT !.tools = @ \o next_page.tools, !.next_cursor = next_page.next_cursor]

IdleClient ==
    [pc |-> "idle", first |-> TRUE, cursor |-> 0, schema |-> None,
     result |-> [kind |-> "none", err |-> "", schema |-> None]]

\* A failed page ends list_tools_full with what was gathered so far.
on_page_error_Partial(cl, e) ==
    [cl EXCEPT !.pc = "done",
               !.result = [kind |-> "ok", err |-> "", schema |-> cl.schema]]

\* The ? operator on a failed list_tools_page: return the error.
on_page_error(cl, e) ==
    [cl EXCEPT !.pc = "done",
               !.result = [kind |-> "err", err |-> e, schema |-> None]]

\* The cursor of the next list_tools_page call of the loop, off by one.
loop_cursor_Skip(cl) == cl.cursor + 1

\* The cursor the loop passes to list_tools_page.
loop_cursor(cl) == cl.cursor

\* list_tools_full from the return of a list_tools_page call (r) up to its
\* next list_tools_page call (pc = "wait") or its return (pc = "done").
list_tools_full_step(cl, r) ==
    IF ~r.ok THEN on_page_error(cl, r.err)
    ELSE LET page == Unwrap(r.val)
             acc  == IF cl.first THEN page ELSE extend_schema(Unwrap(cl.schema), page)
             cur  == IF cl.first THEN 1 ELSE saturating_add_1(cl.cursor)
             stop == (~cl.first /\ cap_reached(cur)) \/ ~IsSome(acc.next_cursor)
         IN  IF stop
             THEN [cl EXCEPT !.pc = "done", !.first = FALSE, !.cursor = cur,
                             !.schema = Some(acc),
                             !.result = [kind |-> "ok", err |-> "", schema |-> Some(acc)]]
             ELSE [cl EXCEPT !.pc = "wait", !.first = FALSE, !.cursor = cur,
                             !.schema = Some(acc)]

(***************************************************************************)
(* client/src/lib.rs: ParsedTool accessors.  tool.params are the entries   *)
(* <<key, value>> of the serde_json map.                                   *)
(***************************************************************************)
\* Map::get
params_get(tool, name) ==
    LET hit == SelectSeq(tool.params, LAMBDA kv : kv[1] = name) IN
    IF hit = <<>> THEN None ELSE Some(hit[1][2])

\* Value::as_object().and_then(|obj| obj.get(key)) on an Option<&Value>
object_get(v, key) ==
    IF IsSome(v) /\ Unwrap(v).t = "obj" THEN ObjGet(Unwrap(v).m, key) ELSE None

\* Option<&Value>::and_then(Value::as_str)
as_str(v) == IF IsSome(v) /\ Unwrap(v).t = "str" THEN Some(Unwrap(v).s) ELSE None

\* Option<&Value>::and_then(Value::as_bool)
as_bool(v) == IF IsSome(v) /\ Unwrap(v).t = "bool" THEN Some(Unwrap(v).b) ELSE None

\* str::ends_with
ends_with(s, pat) ==
    Len(s) >= Len(pat) /\ SubSeq(s, Len(s) - Len(pat) + 1, Len(s)) = pat

RECURSIVE trim_end_matches(_, _)
\* str::trim_end_matches: the suffix is removed as often as it matches.
trim_end_matches(s, pat) ==
    IF ends_with(s, pat) THEN trim_end_matches(SubSeq(s, 1, Len(s) - Len(pat)), pat) ELSE s

HexDigits == <<"0", "1", "2", "3", "4", "5", "6", "7", "8", "9",
               "a", "b", "c", "d", "e", "f">>

UpperHexDigits == <<"0", "1", "2", "3", "4", "5", "6", "7", "8", "9",
                    "A", "B", "C", "D", "E", "F">>

IsHexDigit(c) == \E i \in 1..16 : HexDigits[i] = c \/ UpperHexDigits[i] = c

HexValue(c) == (CHOOSE i \in 1..16 : HexDigits[i] = c \/ UpperHexDigits[i] = c) - 1

\* A character of a text is a one-character string, one byte of UTF-8, or one
\* of these two names of characters outside ASCII.
EAcute == "U+00E9"
EuroSign == "U+20AC"

\* char::len_utf8.
len_utf8(c) == CASE c = EAcute -> 2 [] c = EuroSign -> 3 [] OTHER -> 1

RECURSIVE str_len(_)
\* str::len: the length of a text in bytes.
str_len(s) == IF s = <<>> THEN 0 ELSE len_utf8(Head(s)) + str_len(Tail(s))

\* u8::from_str_radix(pair, 16) on a text of two bytes: two hex digits of
\* either case, or a plus sign and one hex digit.
from_str_radix_16(pair) ==
    IF Len(pair) # 2 THEN None
    ELSE IF IsHexDigit(pair[1]) /\ IsHexDigit(pair[2])
    THEN Some(16 * HexValue(pair[1]) + HexValue(pair[2]))
    ELSE IF pair[1] = "+" /\ IsHexDigit(pair[2]) THEN Some(HexValue(pair[2]))
    ELSE None

\* What a call makes of its caller: it returns a value, or it panics and the
\* thread unwinds.
Returns(x) == [returns |-> TRUE, val |-> x]
Panics == [returns |-> FALSE, val |-> None]

RECURSIVE hex_decode_pairs(_, _, _)
\* The iterator of hex::decode from character k on, which starts at the byte
\* offset i of this step.  &s[i..i + 2] panics unless i + 2 is a character
\* boundary too: character k has one byte and so has the next one, or it has
\* two bytes.  The first slice that is not a number ends the collect with
\* Err(()).
hex_decode_pairs(s, k, acc) ==
    IF k > Len(s) THEN Returns(Some(acc))
    ELSE IF len_utf8(s[k]) = 2 THEN Returns(from_str_radix_16(<<s[k]>>))
    ELSE IF len_utf8(s[k]) > 2 \/ len_utf8(s[k + 1]) > 1 THEN Panics
    ELSE LET b == from_str_radix_16(<<s[k], s[k + 1]>>) IN
         IF ~IsSome(b) THEN Returns(None)
         ELSE hex_decode_pairs(s, k + 2, Append(acc, Unwrap(b)))

\* hex::decode: Returns(None) for Err(()).
hex_decode(s) ==
    IF str_len(s) % 2 # 0 THEN Returns(None) ELSE hex_decode_pairs(s, 1, <<>>)

\* The call that panicked, where a Result is expected.
Unwound == [ok |-> FALSE, err |-> <<"panic">>, val |-> None]

\* The first 8 bytes of the decoded hex text.
discriminator_bytes(tool) ==
    LET decoded == hex_decode(tool.discriminator) IN
    IF ~decoded.returns THEN Unwound
    ELSE IF ~IsSome(decoded.val) THEN Err(<<"ParseSchema">>)
    ELSE IF Len(Unwrap(decoded.val)) < 8 THEN Err(<<"ParseSchema">>)
    ELSE Ok(SubSeq(Unwrap(decoded.val), 1, 8))

Pubkey == <<"p", "u", "b", "k", "e", "y">>

is_account(tool, name) ==
    LET v == params_get(tool, name) IN
    IF ~IsSome(v) THEN FALSE
    ELSE IF as_str(v) = Some(Pubkey) THEN TRUE
    ELSE IF Unwrap(v).t = "obj" THEN as_str(object_get(v, <<"t", "y", "p", "e">>)) = Some(Pubkey)
    ELSE FALSE

is_signer(tool, name) ==
    IF ends_with(name, <<"_", "s">>) \/ ends_with(name, <<"_", "s", "w">>) THEN TRUE
    ELSE LET s == as_bool(object_get(params_get(tool, name), <<"s", "i", "g", "n", "e", "r">>))
         IN  IF IsSome(s) THEN Unwrap(s) ELSE FALSE

is_writable(tool, name) ==
    IF ends_with(name, <<"_", "w">>) \/ ends_with(name, <<"_", "s", "w">>) THEN TRUE
    ELSE LET w == as_bool(object_get(params_get(tool, name),
                                     <<"w", "r", "i", "t", "a", "b", "l", "e">>))
         IN  IF IsSome(w) THEN Unwrap(w) ELSE FALSE

get_param_type(tool, name) ==
    LET v == params_get(tool, name) IN
    IF ~IsSome(v) THEN None
    ELSE IF Unwrap(v).t = "str" THEN Some(Unwrap(v).s)
    ELSE as_str(object_get(v, <<"t", "y", "p", "e">>))

base_name(name) ==
    trim_end_matches(trim_end_matches(trim_end_matches(name, <<"_", "s", "w">>),
                                      <<"_", "s">>), <<"_", "w">>)

required_params(tool) ==
    IF tool.required # <<>> THEN tool.required
    ELSE [i \in 1..Len(tool.params) |-> tool.params[i][1]]

(***************************************************************************)
(* The argument encoders of build_instruction.  Texts are sequences of     *)
(* bytes written as characters; integers are computed on their decimal     *)
(* digits, so that 64- and 128-bit values keep their width.                *)
(***************************************************************************)
IsDigit(c) == c \in {"0", "1", "2", "3", "4", "5", "6", "7", "8", "9"}

DigitValue(c) == Code(c) - 48

RECURSIVE DivDigits(_, _, _)
\* The decimal number ds divided by 256: q its quotient, r the remainder.
DivDigits(ds, rem, acc) ==
    IF ds = <<>> THEN [q |-> acc, r |-> rem]
    ELSE LET cur == rem * 10 + Head(ds)
         IN  DivDigits(Tail(ds), cur % 256, Append(acc, cur \div 256))

RECURSIVE to_le_bytes(_, _)
\* The w low bytes of the decimal number ds, least significant first, and
\* whether the number fits in them.
to_le_bytes(ds, w) ==
    IF w = 0 THEN [bytes |-> <<>>, fits |-> \A i \in 1..Len(ds) : ds[i] = 0]
    ELSE LET d    == DivDigits(ds, 0, <<>>)
             rest == to_le_bytes(d.q, w - 1)
         IN  [bytes |-> <<d.r>> \o rest.bytes, fits |-> rest.fits]

RECURSIVE Negate(_, _)
\* The two's complement of little-endian bytes (carry = 1 at the start).
Negate(bytes, carry) ==
    IF bytes = <<>> THEN <<>>
    ELSE LET b == (255 - Head(bytes)) + carry
         IN  <<b % 256>> \o Negate(Tail(bytes), b \div 256)

\* str::parse for u8 .. u128 (w bytes): an optional plus sign, then one or
\* more decimal digits, the value within the type.  None for a parse error.
parse_unsigned(value, w) ==
    LET digits == IF value # <<>> /\ Head(value) = "+" THEN Tail(value) ELSE value IN
    IF digits = <<>> \/ \E i \in 1..Len(digits) : ~IsDigit(digits[i]) THEN None
    ELSE LET m == to_le_bytes([i \in 1..Len(digits) |-> DigitValue(digits[i])], w)
         IN  IF m.fits THEN Some(m.bytes) ELSE None

\* str::parse for i8 .. i64 (w bytes): an optional sign, then one or more
\* decimal digits, the value within the type; the bytes are two's complement.
parse_signed(value, w) ==
    LET neg    == value # <<>> /\ Head(value) = "-"
        digits == IF value # <<>> /\ Head(value) \in {"+", "-"} THEN Tail(value) ELSE value
    IN  IF digits = <<>> \/ \E i \in 1..Len(digits) : ~IsDigit(digits[i]) THEN None
        ELSE LET m == to_le_bytes([i \in 1..Len(digits) |-> DigitValue(digits[i])], w)
                 min == [i \in 1..w |-> IF i = w THEN 128 ELSE 0]
             IN  IF ~m.fits THEN None
                 ELSE IF ~neg THEN (IF m.bytes[w] < 128 THEN Some(m.bytes) ELSE None)
                 ELSE IF m.bytes[w] < 128 \/ m.bytes = min THEN Some(Negate(m.bytes, 1))
                 ELSE None

\* str::parse::<bool>
parse_bool(value) ==
    IF value = <<"t", "r", "u", "e">> THEN Some(<<1>>)
    ELSE IF value = <<"f", "a", "l", "s", "e">> THEN Some(<<0>>)
    ELSE None

\* The length written most significant byte first.
u32_le_BigEndian(n) ==
    <<(n \div 16777216) % 256, (n \div 65536) % 256, (n \div 256) % 256, n % 256>>

\* (len as u32).to_le_bytes()
u32_le(n) ==
    <<n % 256, (n \div 256) % 256, (n \div 65536) % 256, (n \div 16777216) % 256>>

\* Borsh string: 4-byte length + bytes
borsh_bytes(bytes) == u32_le(Len(bytes)) \o bytes


Base64Alphabet == <<
    "A", "B", "C", "D", "E", "F", "G", "H", "I", "J", "K", "L", "M", "N", "O", "P",
    "Q", "R", "S", "T", "U", "V", "W", "X", "Y", "Z", "a", "b", "c", "d", "e", "f",
    "g", "h", "i", "j", "k", "l", "m", "n", "o", "p", "q", "r", "s", "t", "u", "v",
    "w", "x", "y", "z", "0", "1", "2", "3", "4", "5", "6", "7", "8", "9", "+", "/" >>

IsBase64(c) == \E i \in 1..64 : Base64Alphabet[i] = c

Base64Value(c) == (CHOOSE i \in 1..64 : Base64Alphabet[i] = c) - 1

\* The bytes of one group of four base64 characters, the last one or two of
\* which may be padding; None when a character is not of the alphabet or
\* the bits under the padding are not zero.
base64_group(g, last) ==
    LET pad == IF g[4] # "=" THEN 0 ELSE IF g[3] # "=" THEN 1 ELSE 2
        n   == 4 - pad
    IN  IF (pad > 0 /\ ~last) \/ \E i \in 1..n : ~IsBase64(g[i]) THEN None
        ELSE LET v == [i \in 1..4 |-> IF i <= n THEN Base64Value(g[i]) ELSE 0]
                 b1 == v[1] * 4 + v[2] \div 16
                 b2 == (v[2] % 16) * 16 + v[3] \div 4
                 b3 == (v[3] % 4) * 64 + v[4]
             IN  CASE pad = 0 -> Some(<<b1, b2, b3>>)
                   [] pad = 1 -> IF v[3] % 4 = 0 THEN Some(<<b1, b2>>) ELSE None
                   [] pad = 2 -> IF v[2] % 16 = 0 THEN Some(<<b1>>) ELSE None

\* base64 STANDARD decode: the alphabet above, canonical padding required.
base64_decode(value) ==
    IF Len(value) % 4 # 0 THEN None
    ELSE LET k  == Len(value) \div 4
             gs == [i \in 1..k |-> base64_group(SubSeq(value, 4 * i - 3, 4 * i), i = k)]
         IN  IF \E i \in 1..k : ~IsSome(gs[i]) THEN None
             ELSE Some(Concat([i \in 1..k |-> Unwrap(gs[i])]))

Base58Alphabet == <<
    "1", "2", "3", "4", "5", "6", "7", "8", "9", "A", "B", "C", "D", "E", "F", "G",
    "H", "J", "K", "L", "M", "N", "P", "Q", "R", "S", "T", "U", "V", "W", "X", "Y",
    "Z", "a", "b", "c", "d", "e", "f", "g", "h", "i", "j", "k", "m", "n", "o", "p",
    "q", "r", "s", "t", "u", "v", "w", "x", "y", "z" >>

IsBase58(c) == \E i \in 1..58 : Base58Alphabet[i] = c

Base58Value(c) == (CHOOSE i \in 1..58 : Base58Alphabet[i] = c) - 1

RECURSIVE MulAdd58(_, _)
\* The little-endian number bytes times 58 plus carry.
MulAdd58(bytes, carry) ==
    IF bytes = <<>> THEN (IF carry = 0 THEN <<>> ELSE <<carry % 256>> \o MulAdd58(<<>>, carry \div 256))
    ELSE LET cur == Head(bytes) * 58 + carry
         IN  <<cur % 256>> \o MulAdd58(Tail(bytes), cur \div 256)

RECURSIVE Base58Number(_, _)
\* The number a base58 text stands for, as little-endian bytes without
\* leading zero bytes.
Base58Number(value, acc) ==
    IF value = <<>> THEN acc
    ELSE Base58Number(Tail(value), MulAdd58(acc, Base58Value(Head(value))))

RECURSIVE LeadingOnes(_)
LeadingOnes(value) ==
    IF value # <<>> /\ Head(value) = "1" THEN 1 + LeadingOnes(Tail(value)) ELSE 0

Reverse(s) == [i \in 1..Len(s) |-> s[Len(s) + 1 - i]]

\* Pubkey::from_str: at most 44 base58 characters that decode to exactly 32
\* bytes (each leading "1" is a zero byte).  None for a parse error.
Pubkey_from_str(value) ==
    IF Len(value) > 44 \/ \E i \in 1..Len(value) : ~IsBase58(value[i]) THEN None
    ELSE LET z     == LeadingOnes(value)
             bytes == [i \in 1..z |-> 0]
                        \o Reverse(Base58Number(SubSeq(value, z + 1, Len(value)), <<>>))
         IN  IF Len(bytes) = 32 THEN Some(bytes) ELSE None

(***************************************************************************)
(* client/src/lib.rs: build_instruction.  A Result is Ok(x) or Err(e), e   *)
(* the error variant with its parameter name; accounts and args are the    *)
(* caller's slices of (name, value) pairs.                                 *)
(***************************************************************************)
\* Account metas with the two flags exchanged.
account_meta_Swapped(tool, required, pubkey) ==
    [pubkey |-> pubkey, is_signer |-> is_writable(tool, required),
     is_writable |-> is_signer(tool, required)]

\* AccountMeta { pubkey, is_signer: tool.is_signer(required), is_writable: .. }
account_meta(tool, required, pubkey) ==
    [pubkey |-> pubkey, is_signer |-> is_signer(tool, required),
     is_writable |-> is_writable(tool, required)]

RECURSIVE account_metas_loop(_, _, _, _)
\* "Build account metas": the first loop over required_params.
account_metas_loop(tool, rp, accounts, metas) ==
    IF rp = <<>> THEN Ok(metas)
    ELSE LET required == Head(rp) IN
         IF ~is_account(tool, required)
         THEN account_metas_loop(tool, Tail(rp), accounts, metas)
         ELSE LET base == base_name(required)
                  hit  == SelectSeq(accounts, LAMBDA a : a[1] = base \/ a[1] = required)
              IN  IF hit = <<>> THEN Err(<<"MissingParam", required>>)
                  ELSE account_metas_loop(tool, Tail(rp), accounts,
                           Append(metas, account_meta(tool, required, hit[1][2])))

\* Bytes put in front of the data instead of behind it.
extend_from_slice_Front(data, bytes) == bytes \o data

\* data.extend_from_slice(bytes)
extend_from_slice(data, bytes) == data \o bytes

\* The width in bytes of the integer the match arm of arg_type parses, 0 if
\* arg_type has no integer arm.
UnsignedWidth(arg_type) ==
    CASE arg_type \in {<<"i", "n", "t">>, <<"u", "6", "4">>} -> 8
      [] arg_type = <<"u", "8">>           -> 1
      [] arg_type = <<"u", "1", "6">>      -> 2
      [] arg_type = <<"u", "3", "2">>      -> 4
      [] arg_type = <<"u", "1", "2", "8">> -> 16
      [] OTHER -> 0

SignedWidth(arg_type) ==
    CASE arg_type = <<"i", "8">>      -> 1
      [] arg_type = <<"i", "1", "6">> -> 2
      [] arg_type = <<"i", "3", "2">> -> 4
      [] arg_type = <<"i", "6", "4">> -> 8
      [] OTHER -> 0

\* "Serialize arg based on type": the bytes the match on arg_type appends
\* for value, or the error it returns.
encode_arg(arg_type, value, required) ==
    LET invalid(r) == IF IsSome(r) THEN Ok(Unwrap(r)) ELSE Err(<<"InvalidArg", required>>) IN
    CASE UnsignedWidth(arg_type) > 0 -> invalid(parse_unsigned(value, UnsignedWidth(arg_type)))
      [] SignedWidth(arg_type) > 0   -> invalid(parse_signed(value, SignedWidth(arg_type)))
      [] arg_type = <<"b", "o", "o", "l">> -> invalid(parse_bool(value))
      [] arg_type = Pubkey ->
            LET pk == Pubkey_from_str(value) IN
            IF IsSome(pk) THEN Ok(Unwrap(pk)) ELSE Err(<<"InvalidPubkey", required>>)
      [] arg_type = <<"s", "t", "r">> -> Ok(borsh_bytes(as_bytes(value)))
      [] arg_type = <<"b", "y", "t", "e", "s">> ->
            LET decoded == base64_decode(value) IN
            IF IsSome(decoded) THEN Ok(borsh_bytes(Unwrap(decoded)))
            ELSE Err(<<"InvalidArg", required>>)
      [] OTHER -> Ok(borsh_bytes(as_bytes(value)))

RECURSIVE args_loop(_, _, _, _)
\* "Add args in order": the second loop over required_params.
args_loop(tool, rp, args, data) ==
    IF rp = <<>> THEN Ok(data)
    ELSE LET required == Head(rp) IN
         IF is_account(tool, required) THEN args_loop(tool, Tail(rp), args, data)
         ELSE LET t        == get_param_type(tool, required)
                  arg_type == IF IsSome(t) THEN Unwrap(t) ELSE <<"s", "t", "r">>
                  hit      == SelectSeq(args, LAMBDA a : a[1] = required)
              IN  IF hit = <<>> THEN Err(<<"MissingParam", required>>)
                  ELSE LET enc == encode_arg(arg_type, hit[1][2], required) IN
                       IF ~enc.ok THEN enc
                       ELSE args_loop(tool, Tail(rp), args,
                                      extend_from_slice(data, Unwrap(enc.val)))

\* The discriminator decoded before the accounts are looked up.
build_instruction_DiscriminatorFirst(program_id, tool_name, accounts, args, sch) ==
    LET found == SelectSeq(sch.tools, LAMBDA t : t.name = tool_name) IN
    IF found = <<>> THEN Err(<<"ToolNotFound", tool_name>>)
    ELSE LET tool  == found[1]
             rp    == required_params(tool)
             disc  == discriminator_bytes(tool)
             metas == account_metas_loop(tool, rp, accounts, <<>>)
         IN  IF ~disc.ok THEN disc
             ELSE IF ~metas.ok THEN metas
             ELSE LET data == args_loop(tool, rp, args, Unwrap(disc.val)) IN
                  IF ~data.ok THEN data
                  ELSE Ok([program_id |-> program_id,
                           accounts   |-> Unwrap(metas.val),
                           data       |-> Unwrap(data.val)])

build_instruction(program_id, tool_name, accounts, args, sch) ==
    LET found == SelectSeq(sch.tools, LAMBDA t : t.name = tool_name) IN
    IF found = <<>> THEN Err(<<"ToolNotFound", tool_name>>)
    ELSE LET tool  == found[1]
             rp    == required_params(tool)
             metas == account_metas_loop(tool, rp, accounts, <<>>)
         IN  IF ~metas.ok THEN metas
             ELSE LET disc == discriminator_bytes(tool) IN
                  IF ~disc.ok THEN disc
                  ELSE LET data == args_loop(tool, rp, args, Unwrap(disc.val)) IN
                       IF ~data.ok THEN data
                       ELSE Ok([program_id |-> program_id,
                                accounts   |-> Unwrap(metas.val),
                                data       |-> Unwrap(data.val)])

(***************************************************************************)
(* The schemas served: built with the builders from a corpus of tools.     *)
(***************************************************************************)
ToolCorpus == <<
    McpToolBuilder_build(McpToolBuilder_new(<<"i", "n", "i", "t">>)),
    McpToolBuilder_build(
        arg(account_with_desc(signer_writable(
                description(McpToolBuilder_new(<<"q", "\"">>), <<"a", "\\", "n">>),
                <<"f">>), <<"k", "_", "s">>, <<"d", "\t">>, FALSE, TRUE),
            <<"n">>, "U64")),
    McpToolBuilder_build(
        arg_desc(account(
                description(McpToolBuilder_new(<<"b", "\\", "\\">>),
                            <<"\"", ",", "\"", "n", "e", "x", "t", "C", "u", "r", "s", "o", "r",
                              "\"", ":", "\"", "9">>),
                <<"z">>, FALSE, FALSE), <<"z">>, <<"D">>, "String")),
    McpToolBuilder_build(signer(McpToolBuilder_new(<<"x", "\f">>), <<"a">>)),
    McpToolBuilder_build(arg(McpToolBuilder_new(<<"t", "0">>), <<"v">>, "Bool")),
    McpToolBuilder_build(
        writable(description(McpToolBuilder_new(<<"t", "1">>), <<"n", "e", "x", "t">>),
                 <<"c">>)) >>

SchemaNames == { <<"p">>, <<"c", "\"", "r">> }

RECURSIVE AddTools(_, _, _)
\* The builder after add_tool of n corpus tools, taken cyclically from the k-th.
AddTools(builder, k, n) ==
    IF n = 0 THEN builder
    ELSE AddTools(add_tool(builder, ToolCorpus[((k - 1) % Len(ToolCorpus)) + 1]), k + 1, n - 1)

SchemaPool ==
    { McpSchemaBuilder_build(AddTools(McpSchemaBuilder_new(nm), k, n)) :
        nm \in SchemaNames, k \in 1..Len(ToolCorpus), n \in 0..MaxTools }

NoObs == [op |-> "none", cursor |-> 0, out |-> <<>>]

IdleRpc == [kind |-> "idle", outcome |-> "", data |-> <<>>]

\* The aggregator is not running.
ClientIdle ==
    /\ preserve_order = FALSE
    /\ serverMode = "native"
    /\ client = IdleClient
    /\ rpc = IdleRpc
    /\ fetches = <<>>
    /\ pages = <<>>
    /\ failedAt = 0

NoCall == [op |-> "none"]

\* build_instruction is not called.
BuildIdle == parsed = None /\ built = NoCall

NoCallers ==
    [t \in Threads |-> [pc |-> "idle", calls |-> 0, init |-> 0, waited |-> FALSE,
                        seen |-> None]]

NoAuthor == [pc |-> "none"]

\* No thread is in the program and no tool is being written.
ProgramIdle == callers = NoCallers /\ authoring = NoAuthor

InitPages ==
    /\ ProgramIdle
    /\ schema \in SchemaPool
    /\ cached = None
    /\ obs = NoObs
    /\ ClientIdle
    /\ BuildIdle

\* CachedSchemaPages::from_schema(schema), kept for the life of the process.
FromSchema ==
    /\ cached = None
    /\ cached' = Some(from_schema(schema))
    /\ UNCHANGED <<schema, obs, clientVars, buildVars, programVars>>

\* cached.get_page(cursor) for a u8 cursor.  The call changes nothing, so a
\* behaviour observes one call: every call is the first call of some behaviour.
GetPage(cursor) ==
    /\ IsSome(cached)
    /\ obs = NoObs
    /\ obs' = [op |-> "get_page", cursor |-> cursor, out |-> get_page(Unwrap(cached), cursor)]
    /\ UNCHANGED <<schema, cached, clientVars, buildVars, programVars>>

\* generate_paginated_schema_bytes(&schema, cursor) for a u8 cursor.
GeneratePaginated(cursor) ==
    /\ obs = NoObs
    /\ obs' = [op |-> "generate", cursor |-> cursor,
               out |-> generate_paginated_schema_bytes(schema, cursor)]
    /\ UNCHANGED <<schema, cached, clientVars, buildVars, programVars>>

\* The handlers of the list_tools instruction: list_tools_paginated of the
\* native crate, and the arm of the vault's process_instruction that serves
\* the cached pages.
Handlers == {"native", "vault"}

\* list_tools_page(cursor) sends its instruction and the program's handler
\* serves it.  The vault's get_cached_pages builds the cache if it is empty.
ListToolsPage(cursor, handler) ==
    /\ obs = NoObs
    /\ LET data  == list_tools_request(cursor)
           cache == IF handler = "vault" /\ cached = None
                    THEN Some(from_schema(schema)) ELSE cached
       IN  /\ cached' = cache
           /\ obs' = [op |-> "list_tools_page", cursor |-> cursor, data |-> data,
                      handler |-> handler, dispatched |-> is_list_tools(data),
                      out |-> IF ~is_list_tools(data) THEN <<>>
                              ELSE IF handler = "native"
                              THEN list_tools_paginated(schema, data)
                              ELSE get_page(Unwrap(cache), get_list_tools_cursor(data))]
    /\ UNCHANGED <<schema, clientVars, buildVars, programVars>>

NextPages ==
    \/ FromSchema
    \/ \E cursor \in 0..U8Max : GetPage(cursor)
    \/ \E cursor \in 0..U8Max : GeneratePaginated(cursor)
    \/ \E cursor \in 0..U8Max, handler \in Handlers : ListToolsPage(cursor, handler)

SpecPages == InitPages /\ [][NextPages]_vars


(***************************************************************************)
(* list_tools_full against a program (SpecClient).  The program is either  *)
(* "native": it answers each request with list_tools_paginated over its    *)
(* schema; or "hostile": it answers with any page it likes.  Any call can  *)
(* fail in the transport.                                                  *)
(***************************************************************************)
\* The corpus tools whose pages are valid JSON (no raw control character).
SafeCorpus == <<ToolCorpus[1], ToolCorpus[2], ToolCorpus[3], ToolCorpus[5], ToolCorpus[6]>>

\* The i-th tool (from 0) of a served schema: a corpus tool, told apart from
\* the others by a description that starts with its index.
ServerTool(i) ==
    LET t == SafeCorpus[(i % Len(SafeCorpus)) + 1] IN
    [t EXCEPT !.description =
        Some(DecimalString(i) \o (IF IsSome(@) THEN Unwrap(@) ELSE <<>>))]

ServerSchema(n) ==
    [name |-> <<"p">>, tools |-> [i \in 1..n |-> ServerTool(i - 1)]]

ToolCounts ==
    (0..MaxSmallN) \cup ((SAFETY_CAP - CapMargin)..(SAFETY_CAP + 1 + CapMargin))

\* A served schema whose last tool has a raw control character in its name.
RawControlSchema(n) ==
    [ServerSchema(n) EXCEPT !.tools[n] =
        [ToolCorpus[4] EXCEPT !.description = Some(DecimalString(n - 1))]]

ServerSchemas ==
    {ServerSchema(n) : n \in ToolCounts} \cup {RawControlSchema(n) : n \in 1..MaxSmallN}

\* Pages a hostile program can answer with: one that always names a next
\* page, a last page with a null nextCursor, a page cut short, a page
\* without its tools, a page with a raw control character in a string.
EndlessPage == generate_paginated_schema_bytes(ServerSchema(2), 0)

HostilePages == {
    EndlessPage,
    <<"{", "\"", "v", "\"", ":", "\"", "1", "\"", ",", "\"", "n", "a", "m", "e", "\"", ":",
      "\"", "h", "\"", ",", "\"", "t", "o", "o", "l", "s", "\"", ":", "[", "]", ",",
      "\"", "n", "e", "x", "t", "C", "u", "r", "s", "o", "r", "\"", ":",
      "n", "u", "l", "l", "}">>,
    SubSeq(EndlessPage, 1, Len(EndlessPage) - 1),
    <<"{", "\"", "v", "\"", ":", "\"", "1", "\"", ",", "\"", "n", "a", "m", "e", "\"", ":",
      "\"", "h", "\"", "}">>,
    generate_paginated_schema_bytes(
        [name |-> <<"p">>, tools |-> <<ToolCorpus[4], ToolCorpus[1]>>], 0) }

TransportFailures == {"rpc_error", "no_return_data", "bad_base64"}

InitClient ==
    /\ ProgramIdle
    /\ serverMode \in {"native", "hostile"}
    /\ schema \in IF serverMode = "native" THEN ServerSchemas
                  ELSE {ServerSchema(0)}
    /\ preserve_order \in BOOLEAN
    /\ cached = None
    /\ obs = NoObs
    /\ client = IdleClient
    /\ rpc = IdleRpc
    /\ fetches = <<>>
    /\ pages = <<>>
    /\ failedAt = 0
    /\ BuildIdle

\* list_tools_full is called: its first list_tools_page(program_id, 0).
FullStart ==
    /\ client.pc = "idle"
    /\ client' = [client EXCEPT !.pc = "wait"]
    /\ rpc' = [kind |-> "request", outcome |-> "", data |-> list_tools_request(0)]
    /\ fetches' = Append(fetches, 0)
    /\ UNCHANGED <<pagesVars, buildVars, preserve_order, serverMode, pages, failedAt, programVars>>

\* The program's list_tools handler runs in the simulation.
ServeNative ==
    /\ rpc.kind = "request"
    /\ serverMode = "native"
    /\ rpc' = [kind |-> "response", outcome |-> "data",
               data |-> list_tools_paginated(schema, rpc.data)]
    /\ UNCHANGED <<pagesVars, buildVars, preserve_order, serverMode, client, fetches, pages, failedAt, programVars>>

\* A hostile program returns a page of its choice.
ServeHostile(page) ==
    /\ rpc.kind = "request"
    /\ serverMode = "hostile"
    /\ rpc' = [kind |-> "response", outcome |-> "data", data |-> page]
    /\ UNCHANGED <<pagesVars, buildVars, preserve_order, serverMode, client, fetches, pages, failedAt, programVars>>

\* The RPC collaborator fails, or hands back nothing to decode.
TransportFail(outcome) ==
    /\ rpc.kind = "request"
    /\ rpc' = [kind |-> "response", outcome |-> outcome, data |-> <<>>]
    /\ UNCHANGED <<pagesVars, buildVars, preserve_order, serverMode, client, fetches, pages, failedAt, programVars>>

\* list_tools_page returns to list_tools_full, which runs on to its next
\* list_tools_page call or to its return.
FullReceive ==
    /\ client.pc = "wait"
    /\ rpc.kind = "response"
    /\ \E r \in {list_tools_page_result(rpc, preserve_order)} :
       \E cl \in {list_tools_full_step(client, r)} :
           /\ client' = cl
           /\ pages' = IF r.ok
                       THEN Append(pages, [tools    |-> Unwrap(r.val).tools,
                                           has_next |-> IsSome(Unwrap(r.val).next_cursor)])
                       ELSE pages
           /\ failedAt' = IF r.ok THEN failedAt ELSE Len(fetches)
           /\ IF cl.pc = "wait"
              THEN /\ rpc' = [kind |-> "request", outcome |-> "",
                              data |-> list_tools_request(loop_cursor(cl))]
                   /\ fetches' = Append(fetches, loop_cursor(cl))
              ELSE /\ rpc' = IdleRpc
                   /\ fetches' = fetches
    /\ UNCHANGED <<pagesVars, buildVars, preserve_order, serverMode, programVars>>

NextClient ==
    \/ FullStart
    \/ ServeNative
    \/ \E page \in HostilePages : ServeHostile(page)
    \/ \E outcome \in TransportFailures : TransportFail(outcome)
    \/ FullReceive

SpecClient == InitClient /\ [][NextClient]_vars

\* A step of NextClient is possible: list_tools_full is to be called, or a
\* call of the simulation is pending or has returned.  This is
\* ENABLED <<NextClient>>_vars: FullStart is enabled when pc = "idle",
\* TransportFail when a request is pending, FullReceive when it was answered.
CallPending == client.pc = "idle" \/ rpc.kind # "idle"

\* The caller calls list_tools_full, the simulation answers and the client
\* runs on: every call made returns.  The second conjunct is
\* WF_vars(NextClient) with its ENABLED written as CallPending.
SpecClientFair ==
    /\ SpecClient
    /\ WF_vars(FullStart)
    /\ ([]<>(~CallPending) \/ []<><<NextClient>>_vars)

(***************************************************************************)
(* build_instruction on parsed schemas (SpecBuild).                        *)
(***************************************************************************)
\* A tool as parsed from a compact schema: members are the entries of "p"
\* in document order.
CompactTool(name, hex, members, required, ordered) ==
    [name |-> name, description |-> None, discriminator |-> hex,
     params |-> MapFromMembers(members, ordered), required |-> required]

CompactTools(ordered) == <<
    CompactTool(<<"i", "n", "c", "r", "e", "m", "e", "n", "t">>, <<"0", "b", "1", "2", "6", "8", "0", "9", "6", "8", "a", "e", "3", "b", "2", "1">>,
        <<<<<<"c", "o", "u", "n", "t", "e", "r", "_", "w">>, JStr(<<"p", "u", "b", "k", "e", "y">>)>>, <<<<"a", "u", "t", "h", "o", "r", "i", "t", "y", "_", "s">>, JStr(<<"p", "u", "b", "k", "e", "y">>)>>, <<<<"a", "m", "o", "u", "n", "t">>, JStr(<<"u", "6", "4">>)>>>>,
        <<<<"c", "o", "u", "n", "t", "e", "r", "_", "w">>, <<"a", "u", "t", "h", "o", "r", "i", "t", "y", "_", "s">>, <<"a", "m", "o", "u", "n", "t">>>>, ordered),
    CompactTool(<<"i", "n", "c", "r", "e", "m", "e", "n", "t">>, <<"d", "c", "3", "b", "c", "f", "e", "c", "6", "c", "f", "a", "2", "f", "6", "4">>,
        <<<<<<"a", "m", "o", "u", "n", "t">>, JStr(<<"u", "8">>)>>>>,
        <<<<"a", "m", "o", "u", "n", "t">>>>, ordered),
    CompactTool(<<"m", "i", "x">>, <<"0", "d", "4", "e", "e", "4", "2", "1", "2", "1", "d", "4", "e", "c", "2", "f", "f", "f">>,
        <<<<<<"n">>, JStr(<<"s", "t", "r">>)>>, <<<<"v", "a", "u", "l", "t", "_", "s", "w">>, JStr(<<"p", "u", "b", "k", "e", "y">>)>>, <<<<"f", "l", "a", "g">>, JStr(<<"b", "o", "o", "l">>)>>, <<<<"k">>, JStr(<<"p", "u", "b", "k", "e", "y">>)>>>>,
        <<<<"n">>, <<"v", "a", "u", "l", "t", "_", "s", "w">>, <<"f", "l", "a", "g">>, <<"k">>, <<"g", "h", "o", "s", "t">>>>, ordered),
    CompactTool(<<"t", "w", "i", "c", "e">>, <<"1", "6", "9", "5", "4", "8", "0", "0", "9", "3", "F", "1", "2", "0", "4", "8">>,
        <<<<<<"k">>, JStr(<<"p", "u", "b", "k", "e", "y">>)>>, <<<<"v">>, JStr(<<"u", "1", "6">>)>>>>,
        <<<<"v">>, <<"k">>, <<"v">>, <<"k">>>>, ordered),
    CompactTool(<<"o", "d", "d">>, <<"0", "b", "1", "2", "6", "8", "0", "9", "6", "8", "a", "e", "3", "b", "2">>,
        <<<<<<"a", "_", "s">>, JStr(<<"p", "u", "b", "k", "e", "y">>)>>, <<<<"v">>, JStr(<<"u", "8">>)>>>>,
        <<<<"a", "_", "s">>, <<"v">>>>, ordered),
    CompactTool(<<"s", "h", "o", "r", "t">>, <<"0", "b", "1", "2", "6", "8", "0", "9", "6", "8", "a", "e", "3", "b">>,
        <<<<<<"a", "_", "s">>, JStr(<<"p", "u", "b", "k", "e", "y">>)>>, <<<<"v">>, JStr(<<"u", "8">>)>>>>,
        <<<<"a", "_", "s">>, <<"v">>>>, ordered),
    CompactTool(<<"n", "o", "t", "h", "e", "x">>, <<"z", "z", "1", "2", "6", "8", "0", "9", "6", "8", "a", "e", "3", "b", "2", "1">>,
        <<<<<<"a", "_", "s">>, JStr(<<"p", "u", "b", "k", "e", "y">>)>>, <<<<"v">>, JStr(<<"u", "8">>)>>>>,
        <<<<"a", "_", "s">>, <<"v">>>>, ordered),
    CompactTool(<<"p", "l", "u", "s">>, <<"+", "b", "1", "2", "6", "8", "0", "9", "6", "8", "a", "e", "3", "b", "2", "1">>,
        <<<<<<"a", "_", "s">>, JStr(<<"p", "u", "b", "k", "e", "y">>)>>, <<<<"v">>, JStr(<<"u", "8">>)>>>>,
        <<<<"a", "_", "s">>, <<"v">>>>, ordered),
    CompactTool(<<"i", "n", "t">>, <<"e", "4", "3", "3", "9", "7", "b", "5", "1", "c", "6", "d", "a", "3", "6", "a">>,
        <<<<<<"v">>, JStr(<<"i", "n", "t">>)>>>>,
        <<<<"v">>>>, ordered),
    CompactTool(<<"u", "8">>, <<"e", "a", "0", "6", "d", "b", "f", "2", "5", "5", "6", "b", "b", "9", "7", "7">>,
        <<<<<<"v">>, JStr(<<"u", "8">>)>>>>,
        <<<<"v">>>>, ordered),
    CompactTool(<<"u", "1", "6">>, <<"0", "8", "6", "f", "4", "6", "a", "1", "e", "f", "c", "f", "2", "2", "f", "5">>,
        <<<<<<"v">>, JStr(<<"u", "1", "6">>)>>>>,
        <<<<"v">>>>, ordered),
    CompactTool(<<"u", "3", "2">>, <<"1", "4", "4", "2", "c", "8", "4", "d", "d", "4", "0", "4", "9", "6", "e", "4">>,
        <<<<<<"v">>, JStr(<<"u", "3", "2">>)>>>>,
        <<<<"v">>>>, ordered),
    CompactTool(<<"u", "6", "4">>, <<"4", "9", "3", "e", "7", "9", "7", "6", "0", "8", "7", "7", "3", "f", "d", "0">>,
        <<<<<<"v">>, JStr(<<"u", "6", "4">>)>>>>,
        <<<<"v">>>>, ordered),
    CompactTool(<<"u", "1", "2", "8">>, <<"9", "7", "2", "a", "e", "f", "0", "d", "b", "b", "8", "1", "3", "9", "4", "9">>,
        <<<<<<"v">>, JStr(<<"u", "1", "2", "8">>)>>>>,
        <<<<"v">>>>, ordered),
    CompactTool(<<"i", "8">>, <<"2", "b", "e", "9", "3", "e", "8", "b", "1", "5", "d", "c", "6", "1", "9", "d">>,
        <<<<<<"v">>, JStr(<<"i", "8">>)>>>>,
        <<<<"v">>>>, ordered),
    CompactTool(<<"i", "1", "6">>, <<"2", "1", "a", "5", "9", "0", "c", "3", "5", "1", "d", "a", "e", "f", "0", "a">>,
        <<<<<<"v">>, JStr(<<"i", "1", "6">>)>>>>,
        <<<<"v">>>>, ordered),
    CompactTool(<<"i", "3", "2">>, <<"7", "0", "9", "6", "1", "b", "9", "1", "4", "7", "3", "0", "f", "2", "7", "b">>,
        <<<<<<"v">>, JStr(<<"i", "3", "2">>)>>>>,
        <<<<"v">>>>, ordered),
    CompactTool(<<"i", "6", "4">>, <<"f", "3", "7", "b", "4", "c", "b", "5", "f", "c", "6", "c", "8", "b", "b", "d">>,
        <<<<<<"v">>, JStr(<<"i", "6", "4">>)>>>>,
        <<<<"v">>>>, ordered),
    CompactTool(<<"i", "1", "2", "8">>, <<"a", "4", "3", "f", "3", "5", "6", "5", "9", "a", "5", "0", "a", "4", "9", "a">>,
        <<<<<<"v">>, JStr(<<"i", "1", "2", "8">>)>>>>,
        <<<<"v">>>>, ordered),
    CompactTool(<<"b", "o", "o", "l">>, <<"2", "e", "0", "b", "a", "b", "4", "8", "b", "d", "6", "b", "3", "c", "d", "9">>,
        <<<<<<"v">>, JStr(<<"b", "o", "o", "l">>)>>>>,
        <<<<"v">>>>, ordered),
    CompactTool(<<"p", "u", "b", "k", "e", "y">>, <<"7", "2", "6", "4", "3", "f", "e", "f", "c", "9", "3", "b", "d", "7", "2", "6">>,
        <<<<<<"v">>, JStr(<<"p", "u", "b", "k", "e", "y">>)>>>>,
        <<<<"v">>>>, ordered),
    CompactTool(<<"s", "t", "r">>, <<"3", "c", "e", "6", "1", "f", "8", "9", "e", "b", "a", "9", "0", "4", "5", "6">>,
        <<<<<<"v">>, JStr(<<"s", "t", "r">>)>>>>,
        <<<<"v">>>>, ordered),
    CompactTool(<<"b", "y", "t", "e", "s">>, <<"9", "1", "6", "6", "3", "f", "3", "4", "b", "f", "f", "d", "4", "1", "1", "0">>,
        <<<<<<"v">>, JStr(<<"b", "y", "t", "e", "s">>)>>>>,
        <<<<"v">>>>, ordered),
    CompactTool(<<"s", "t", "r", "i", "n", "g">>, <<"2", "d", "5", "7", "1", "e", "7", "3", "1", "a", "1", "c", "8", "4", "b", "9">>,
        <<<<<<"v">>, JStr(<<"s", "t", "r", "i", "n", "g">>)>>>>,
        <<<<"v">>>>, ordered) >>

\* A schema built with the builders: pay takes a signer account and a scalar
\* argument that is an address.
EncodedSchema ==
    McpSchemaBuilder_build(add_tool(McpSchemaBuilder_new(<<"c">>),
        McpToolBuilder_build(
            arg(signer(McpToolBuilder_new(<<"p", "a", "y">>), <<"a">>), <<"v">>, "Pubkey"))))

\* The tools a client parses from the compact encoding of EncodedSchema.
EncodedTools(ordered) ==
    Unwrap(from_slice(generate_compact_schema(EncodedSchema), ordered).val).tools

CompactParsed(ordered) ==
    [version |-> PROTOCOL_VERSION, name |-> <<"c">>,
     tools |-> CompactTools(ordered) \o EncodedTools(ordered),
     next_cursor |-> None]

\* A schema whose tool declares its accounts and args out of alphabetical
\* order, as list_tools_page parses its verbose page.
VerboseSchema ==
    McpSchemaBuilder_build(add_tool(McpSchemaBuilder_new(<<"v">>),
        McpToolBuilder_build(
            arg(arg(writable(signer(McpToolBuilder_new(<<"t", "1">>), <<"z">>), <<"a">>),
                    <<"m">>, "U8"), <<"b">>, "String"))))

VerboseParsed(ordered) ==
    Unwrap(from_slice(generate_paginated_schema_bytes(VerboseSchema, 0), ordered).val)

ToolNames == {
    <<"i", "n", "c", "r", "e", "m", "e", "n", "t">>,
    <<"m", "i", "x">>,
    <<"t", "w", "i", "c", "e">>,
    <<"o", "d", "d">>,
    <<"s", "h", "o", "r", "t">>,
    <<"n", "o", "t", "h", "e", "x">>,
    <<"p", "l", "u", "s">>,
    <<"p", "a", "y">>,
    <<"t", "1">>,
    <<"n", "o", "p", "e">>,
    <<"i", "n", "t">>,
    <<"u", "8">>,
    <<"u", "1", "6">>,
    <<"u", "3", "2">>,
    <<"u", "6", "4">>,
    <<"u", "1", "2", "8">>,
    <<"i", "8">>,
    <<"i", "1", "6">>,
    <<"i", "3", "2">>,
    <<"i", "6", "4">>,
    <<"i", "1", "2", "8">>,
    <<"b", "o", "o", "l">>,
    <<"p", "u", "b", "k", "e", "y">>,
    <<"s", "t", "r">>,
    <<"b", "y", "t", "e", "s">>,
    <<"s", "t", "r", "i", "n", "g">> }

\* The caller's accounts: (name, address) pairs.
AccountLists == {
    <<>>,
    <<<<<<"c", "o", "u", "n", "t", "e", "r">>, "C">>, <<<<"a", "u", "t", "h", "o", "r", "i", "t", "y">>, "A">>>>,
    <<<<<<"a", "u", "t", "h", "o", "r", "i", "t", "y", "_", "s">>, "A">>, <<<<"c", "o", "u", "n", "t", "e", "r", "_", "w">>, "C">>>>,
    <<<<<<"c", "o", "u", "n", "t", "e", "r">>, "V">>, <<<<"c", "o", "u", "n", "t", "e", "r", "_", "w">>, "C">>, <<<<"a", "u", "t", "h", "o", "r", "i", "t", "y">>, "A">>>>,
    <<<<<<"c", "o", "u", "n", "t", "e", "r">>, "C">>>>,
    <<<<<<"v", "a", "u", "l", "t">>, "V">>, <<<<"k">>, "A">>>>,
    <<<<<<"k">>, "A">>, <<<<"k">>, "C">>, <<<<"v", "a", "u", "l", "t", "_", "s", "w">>, "V">>>>,
    <<<<<<"z">>, "A">>, <<<<"a">>, "C">>>>,
    <<<<<<"a">>, "A">>, <<<<"v">>, "V">>>>,
    <<<<<<"a", "_", "s">>, "A">>>> }

\* Argument texts: integers at the edges of each width, signs, booleans,
\* base64 and base58 texts, and texts that are none of these.
ArgValues == {
    <<"1", "0", "0">>,
    <<"0">>,
    <<"+", "7">>,
    <<"-", "1">>,
    <<>>,
    <<"2", "5", "5">>,
    <<"2", "5", "6">>,
    <<"6", "5", "5", "3", "6">>,
    <<"4", "2", "9", "4", "9", "6", "7", "2", "9", "6">>,
    <<"1", "8", "4", "4", "6", "7", "4", "4", "0", "7", "3", "7", "0", "9", "5", "5", "1", "6", "1", "5">>,
    <<"1", "8", "4", "4", "6", "7", "4", "4", "0", "7", "3", "7", "0", "9", "5", "5", "1", "6", "1", "6">>,
    <<"3", "4", "0", "2", "8", "2", "3", "6", "6", "9", "2", "0", "9", "3", "8", "4", "6", "3", "4", "6", "3", "3", "7", "4", "6", "0", "7", "4", "3", "1", "7", "6", "8", "2", "1", "1", "4", "5", "5">>,
    <<"3", "4", "0", "2", "8", "2", "3", "6", "6", "9", "2", "0", "9", "3", "8", "4", "6", "3", "4", "6", "3", "3", "7", "4", "6", "0", "7", "4", "3", "1", "7", "6", "8", "2", "1", "1", "4", "5", "6">>,
    <<"-", "1", "2", "8">>,
    <<"-", "1", "2", "9">>,
    <<"1", "2", "7">>,
    <<"1", "2", "8">>,
    <<"-", "9", "2", "2", "3", "3", "7", "2", "0", "3", "6", "8", "5", "4", "7", "7", "5", "8", "0", "8">>,
    <<"9", "2", "2", "3", "3", "7", "2", "0", "3", "6", "8", "5", "4", "7", "7", "5", "8", "0", "8">>,
    <<"t", "r", "u", "e">>,
    <<"f", "a", "l", "s", "e">>,
    <<"T", "r", "u", "e">>,
    <<"1", "x">>,
    <<" ", "1">>,
    <<"Q", "U", "J", "D">>,
    <<"Q", "Q", "=", "=">>,
    <<"Q", "R", "=", "=">>,
    <<"1", "1", "1", "1", "1", "1", "1", "1", "1", "1", "1", "1", "1", "1", "1", "1", "1", "1", "1", "1", "1", "1", "1", "1", "1", "1", "1", "1", "1", "1", "1", "1">>,
    <<"h", "i">> }

\* The caller's args: (name, text) pairs.
ArgLists ==
    { <<<<<<"v">>, x>>>> : x \in ArgValues } \cup {
    <<>>,
    <<<<<<"a", "m", "o", "u", "n", "t">>, <<"1", "0", "0">>>>>>,
    <<<<<<"a", "m", "o", "u", "n", "t">>, <<"1">>>>, <<<<"a", "m", "o", "u", "n", "t">>, <<"2">>>>>>,
    <<<<<<"a", "m", "o", "u", "n", "t">>, <<"x">>>>>>,
    <<<<<<"c", "o", "u", "n", "t", "e", "r", "_", "w">>, <<"5">>>>, <<<<"a", "m", "o", "u", "n", "t">>, <<"7">>>>>>,
    <<<<<<"n">>, <<"h", "i">>>>, <<<<"f", "l", "a", "g">>, <<"t", "r", "u", "e">>>>, <<<<"g", "h", "o", "s", "t">>, <<"g">>>>>>,
    <<<<<<"g", "h", "o", "s", "t">>, <<>>>>, <<<<"f", "l", "a", "g">>, <<"f", "a", "l", "s", "e">>>>, <<<<"n">>, <<"a", "\"", "b">>>>>>,
    <<<<<<"n">>, <<"h", "i">>>>, <<<<"f", "l", "a", "g">>, <<"y", "e", "s">>>>, <<<<"g", "h", "o", "s", "t">>, <<"g">>>>>>,
    <<<<<<"n">>, <<"h", "i">>>>, <<<<"f", "l", "a", "g">>, <<"t", "r", "u", "e">>>>>>,
    <<<<<<"m">>, <<"7">>>>, <<<<"b">>, <<"x">>>>>>,
    <<<<<<"b">>, <<"x">>>>, <<<<"m">>, <<"3", "0", "0">>>>>> }


InitBuild ==
    /\ ProgramIdle
    /\ preserve_order \in BOOLEAN
    /\ parsed \in {CompactParsed(preserve_order), VerboseParsed(preserve_order)}
    /\ built = NoCall
    /\ schema = VerboseSchema
    /\ cached = None
    /\ obs = NoObs
    /\ serverMode = "native"
    /\ client = IdleClient
    /\ rpc = IdleRpc
    /\ fetches = <<>>
    /\ pages = <<>>
    /\ failedAt = 0

\* client.build_instruction(&program_id, tool_name, &accounts, &args, &schema).
\* The call changes nothing, so a behaviour observes one call.
BuildInstruction(tool_name, accounts, args) ==
    /\ built = NoCall
    /\ built' = [op |-> "build", tool_name |-> tool_name, accounts |-> accounts,
                 args |-> args,
                 result |-> build_instruction("P", tool_name, accounts, args, parsed)]
    /\ UNCHANGED <<parsed, pagesVars, clientVars, programVars>>

NextBuild ==
    \E tool_name \in ToolNames, accounts \in AccountLists, args \in ArgLists :
        BuildInstruction(tool_name, accounts, args)

SpecBuild == InitBuild /\ [][NextBuild]_vars

(***************************************************************************)
(* Encoding a built schema and reading it back with the client's decoder   *)
(* (SpecDecode).                                                           *)
(***************************************************************************)
\* Account names: plain ones, and ones that themselves end in a suffix token.
AccountNames == {
    <<"f", "r", "o", "m">>,
    <<"s", "t", "a", "t", "u", "s">>,
    <<"k">>,
    <<"t", "o", "k", "e", "n", "_", "s">>,
    <<"a", "_", "w">>,
    <<"a", "_", "s", "w">>,
    <<"_", "s">>,
    <<"k", "_", "w", "_", "s">> }

\* One tool with one account of the given name and flags, followed by an arg.
AccountSchema(name, sig, wr) ==
    McpSchemaBuilder_build(add_tool(McpSchemaBuilder_new(<<"p">>),
        McpToolBuilder_build(
            arg(account(McpToolBuilder_new(<<"t", "1">>), name, sig, wr),
                <<"n", "_", "s">>, "U64"))))

\* The encode example: accounts from (signer, writable) and to (writable),
\* arg amount: u64.
TransferSchema ==
    McpSchemaBuilder_build(add_tool(McpSchemaBuilder_new(<<"p">>),
        McpToolBuilder_build(
            arg(writable(signer_writable(McpToolBuilder_new(<<"t", "r", "a", "n", "s", "f", "e", "r">>),
                                         <<"f", "r", "o", "m">>), <<"t", "o">>),
                <<"a", "m", "o", "u", "n", "t">>, "U64"))))

DecodeSchemas ==
    SchemaPool
    \cup { AccountSchema(name, s, w) : name \in AccountNames, s \in BOOLEAN, w \in BOOLEAN }
    \cup { TransferSchema, EncodedSchema, VerboseSchema }

\* Discriminator texts a server can send: the hex of 8 and of 9 bytes in
\* either case, too few digits, an odd number of digits, and texts with a
\* character that is not a hex digit.
DiscriminatorTexts == {
    <<"0", "b", "1", "2", "6", "8", "0", "9", "6", "8", "a", "e", "3", "b", "2", "1">>,
    <<"0", "B", "1", "2", "6", "8", "0", "9", "6", "8", "A", "E", "3", "B", "2", "1">>,
    <<"0", "b", "1", "2", "6", "8", "0", "9", "6", "8", "a", "e", "3", "b", "2", "1", "f", "f">>,
    <<"0", "b", "1", "2", "6", "8", "0", "9", "6", "8", "a", "e", "3", "b", "2", "1", "f">>,
    <<"0", "b", "1", "2", "6", "8", "0", "9", "6", "8", "a", "e", "3", "b", "2">>,
    <<"0", "b", "1", "2", "6", "8", "0", "9", "6", "8", "a", "e", "3", "b">>,
    <<"0", "b", "1", "2", "6", "8">>,
    <<>>,
    <<"i", "n", "v", "a", "l", "i", "d", "_", "h", "e", "x">>,
    <<"z", "z", "1", "2", "6", "8", "0", "9", "6", "8", "a", "e", "3", "b", "2", "1">>,
    <<"0", "b", "1", "2", "6", "8", "0", "9", "6", "8", "a", "e", "3", "b", "2", "g">>,
    <<"0", "b", "1", "2", "6", "8", "0", "9", "6", "8", "a", "e", "3", "b", " ", "1">>,
    <<"+", "b", "1", "2", "6", "8", "0", "9", "6", "8", "a", "e", "3", "b", "2", "1">>,
    <<"0", "b", "1", "2", "6", "8", "0", "9", "6", "8", "a", "e", "3", "b", "+", "1">>,
    <<"0", "b", "1", "2", "6", "8", "0", "9", "6", "8", "a", "e", "3", "b", "2", "+">>,
    <<"-", "b", "1", "2", "6", "8", "0", "9", "6", "8", "a", "e", "3", "b", "2", "1">>,
    <<"0", "x", "1", "2", "6", "8", "0", "9", "6", "8", "a", "e", "3", "b", "2", "1">>,
    <<EAcute, "1", "2", "6", "8", "0", "9", "6", "8", "a", "e", "3", "b", "2", "1">>,
    <<EAcute, EAcute>>,
    <<"0", "b", "1", "2", "6", "8", "0", "9", "6", "8", "a", "e", "3", "b", "2", EAcute, "1">>,
    <<"0", EuroSign>>,
    <<"z", EAcute, "0">>,
    <<"0", "b", EuroSign, "1">> }

InitDecode ==
    /\ ProgramIdle
    /\ schema \in DecodeSchemas
    /\ cached = None
    /\ obs = NoObs
    /\ preserve_order \in BOOLEAN
    /\ serverMode = "native"
    /\ client = IdleClient
    /\ rpc = IdleRpc
    /\ fetches = <<>>
    /\ pages = <<>>
    /\ failedAt = 0
    /\ BuildIdle

\* serde_json::from_slice(generate_compact_schema(&schema).as_bytes()): the
\* client reads the compact document; parsed holds the schema if it parses.
DecodeCompact ==
    /\ obs = NoObs
    /\ built = NoCall
    /\ LET out    == generate_compact_schema(schema)
           result == from_slice(out, preserve_order)
       IN  /\ obs' = [op |-> "compact", cursor |-> 0, out |-> out, ok |-> result.ok]
           /\ parsed' = IF result.ok THEN Unwrap(result.val) ELSE parsed
    /\ UNCHANGED <<schema, cached, clientVars, built, programVars>>

\* list_tools_page: serde_json::from_slice of the page the program serves for
\* the cursor.
DecodePage(cursor) ==
    /\ obs = NoObs
    /\ built = NoCall
    /\ LET out    == generate_paginated_schema_bytes(schema, cursor)
           result == from_slice(out, preserve_order)
       IN  /\ obs' = [op |-> "page", cursor |-> cursor, out |-> out, ok |-> result.ok]
           /\ parsed' = IF result.ok THEN Unwrap(result.val) ELSE parsed
    /\ UNCHANGED <<schema, cached, clientVars, built, programVars>>

\* The accessors of ParsedTool called on tool t of the parsed schema:
\* discriminator_bytes, required_params and, for each required key,
\* is_account, is_signer, is_writable and base_name.
ReadTool(t) ==
    /\ obs.op \in {"compact", "page"}
    /\ obs.ok
    /\ built = NoCall
    /\ t \in 1..Len(parsed.tools)
    /\ LET tool == parsed.tools[t]
           rp   == required_params(tool)
       IN  built' = [op |-> "read", tool |-> t, name |-> tool.name,
                     discriminator_bytes |-> discriminator_bytes(tool),
                     required_params |-> rp,
                     is_account  |-> [i \in 1..Len(rp) |-> is_account(tool, rp[i])],
                     is_signer   |-> [i \in 1..Len(rp) |-> is_signer(tool, rp[i])],
                     is_writable |-> [i \in 1..Len(rp) |-> is_writable(tool, rp[i])],
                     base_name   |-> [i \in 1..Len(rp) |-> base_name(rp[i])]]
    /\ UNCHANGED <<parsed, pagesVars, clientVars, programVars>>

\* discriminator_bytes on a tool whose discriminator is any text a server
\* sent.
DiscriminatorBytes(hex) ==
    /\ obs = NoObs
    /\ built = NoCall
    /\ built' = [op |-> "discriminator_bytes", discriminator |-> hex,
                 result |-> discriminator_bytes(
                                CompactTool(<<"t">>, hex, <<>>, <<>>, preserve_order))]
    /\ UNCHANGED <<parsed, pagesVars, clientVars, programVars>>

\* A text that the declared type of an arg accepts.
TextFor(arg_type) ==
    CASE arg_type = "Bool"   -> <<"t", "r", "u", "e">>
      [] arg_type = "Pubkey" -> [i \in 1..32 |-> "1"]
      [] arg_type = "String" -> <<"h", "i">>
      [] arg_type = "Bytes"  -> <<"Q", "U", "J", "D">>
      [] OTHER               -> <<"7">>

\* The caller's inputs for a built tool: one address per account under the
\* account's declared name, one text per arg under the arg's name.
CallerAccounts(tool) ==
    [i \in 1..Len(tool.accounts) |-> <<tool.accounts[i].name, <<"K", i>>>>]

CallerArgs(tool) ==
    [i \in 1..Len(tool.args) |-> <<tool.args[i].name, TextFor(tool.args[i].arg_type)>>]

\* build_instruction on a schema read from a document; the parse error if the
\* document does not parse.
build_from(doc, tool, ordered) ==
    LET result == from_slice(doc, ordered) IN
    IF ~result.ok THEN Err(<<"ParseSchema">>)
    ELSE build_instruction("P", tool.name, CallerAccounts(tool), CallerArgs(tool),
                           Unwrap(result.val))

\* Tool t of the schema called through both wire shapes: once on the schema
\* decoded from the compact document, once on the schema decoded from the
\* tool's page, with the same caller inputs.
BuildFromBoth(t) ==
    /\ obs = NoObs
    /\ built = NoCall
    /\ t \in 1..Len(schema.tools)
    /\ built' = [op |-> "both", tool |-> t,
                 compact |-> build_from(generate_compact_schema(schema),
                                        schema.tools[t], preserve_order),
                 verbose |-> build_from(generate_paginated_schema_bytes(schema, t - 1),
                                        schema.tools[t], preserve_order)]
    /\ UNCHANGED <<parsed, pagesVars, clientVars, programVars>>

NextDecode ==
    \/ DecodeCompact
    \/ \E cursor \in 0..MaxTools : DecodePage(cursor)
    \/ \E t \in 1..(MaxTools + 1) : ReadTool(t)
    \/ \E hex \in DiscriminatorTexts : DiscriminatorBytes(hex)
    \/ \E t \in 1..(MaxTools + 1) : BuildFromBoth(t)

SpecDecode == InitDecode /\ [][NextDecode]_vars

(***************************************************************************)
(* examples/vault/src/lib.rs: the process-wide page cache.  CACHED_PAGES   *)
(* is a std::sync::OnceLock; get_or_init runs one initializer, blocks the  *)
(* other callers until the cell is written, and then hands every caller a  *)
(* reference to the cell's value.  A thread is in one of: "idle",          *)
(* "get_or_init" (called, cell not looked at yet), "init" (running the     *)
(* closure), "blocked" (waiting for the initializer), "get_page" (holds    *)
(* the reference).                                                         *)
(***************************************************************************)
\* The initializer closure of another thread is running.
initializing(cs, t) == \E u \in DOMAIN cs : u # t /\ cs[u].pc = "init"

\* An initialisation that locks nothing: whoever finds the cell empty fills it.
get_or_init_Unsynchronised(cell, cs, t) ==
    IF IsSome(cell) THEN "get_page" ELSE "init"

\* OnceLock::get_or_init, the step after the call: where the thread goes.
get_or_init(cell, cs, t) ==
    IF IsSome(cell) THEN "get_page"
    ELSE IF initializing(cs, t) THEN "blocked"
    ELSE "init"

InitOnce ==
    /\ ProgramIdle
    /\ schema \in {ServerSchema(n) : n \in 0..MaxSmallN}
    /\ cached = None
    /\ obs = NoObs
    /\ ClientIdle
    /\ BuildIdle

\* process_instruction with the list_tools discriminator: get_cached_pages()
\* is called.
ListTools(t) ==
    /\ callers[t].pc = "idle"
    /\ callers[t].calls < MaxCalls
    /\ callers' = [callers EXCEPT ![t].pc = "get_or_init", ![t].calls = @ + 1]
    /\ UNCHANGED <<pagesVars, clientVars, buildVars, authoring>>

\* CACHED_PAGES.get_or_init(..): the cell is looked at.
GetOrInit(t) ==
    /\ callers[t].pc = "get_or_init"
    /\ LET to == get_or_init(cached, callers, t) IN
       callers' = [callers EXCEPT
            ![t].pc = to,
            ![t].init = IF to = "init" THEN @ + 1 ELSE @,
            ![t].waited = IF to = "blocked" THEN TRUE ELSE @,
            ![t].seen = IF to = "get_page" THEN cached ELSE @]
    /\ UNCHANGED <<pagesVars, clientVars, buildVars, authoring>>

\* The closure: CachedSchemaPages::from_schema(&build_schema()) is computed
\* and written to the cell; the initializer gets the reference.
Initialize(t) ==
    /\ callers[t].pc = "init"
    /\ cached' = Some(from_schema(schema))
    /\ callers' = [callers EXCEPT ![t].pc = "get_page", ![t].seen = cached']
    /\ UNCHANGED <<schema, obs, clientVars, buildVars, authoring>>

\* A blocked caller is woken once the cell is written.
Unblock(t) ==
    /\ callers[t].pc = "blocked"
    /\ IsSome(cached)
    /\ callers' = [callers EXCEPT ![t].pc = "get_page", ![t].seen = cached]
    /\ UNCHANGED <<pagesVars, clientVars, buildVars, authoring>>

\* get_page(cursor) on the reference, for the cursor byte of the instruction
\* data, and set_return_data(page_bytes).
ReturnPage(t, cursor) ==
    /\ callers[t].pc = "get_page"
    /\ callers' = [callers EXCEPT ![t].pc = "idle"]
    /\ obs' = [op |-> "list_tools", cursor |-> cursor,
               out |-> get_page(Unwrap(callers[t].seen), cursor)]
    /\ UNCHANGED <<schema, cached, clientVars, buildVars, authoring>>

NextOnce ==
    \E t \in Threads :
        \/ ListTools(t)
        \/ GetOrInit(t)
        \/ Initialize(t)
        \/ Unblock(t)
        \/ \E cursor \in 0..MaxSmallN : ReturnPage(t, cursor)

SpecOnce == InitOnce /\ [][NextOnce]_vars

(***************************************************************************)
(* A program's author writes a tool with McpToolBuilder and builds it, and *)
(* a caller computes the discriminator of a name (SpecAuthor).             *)
(***************************************************************************)
AuthorNames == { <<"i", "n", "i", "t">>, <<"p", "a", "y">> }

AuthorText == <<"d">>

HashedNames == {DiscriminatorTable[k][1] : k \in 1..Len(DiscriminatorTable)}

InitAuthor ==
    /\ callers = NoCallers
    /\ authoring = NoAuthor
    /\ schema \in {ServerSchema(n) : n \in 0..MaxSmallN}
    /\ cached = None
    /\ obs = NoObs
    /\ ClientIdle
    /\ BuildIdle

\* A builder is being written.
Writing == authoring.pc = "writing"

\* The builder has room for one more account or argument.
CanPush ==
    /\ Writing
    /\ Len(authoring.builder.accounts) + Len(authoring.builder.args) < MaxCalls

\* The author calls a method that takes the builder and returns it.
Chain(next) ==
    /\ authoring' = [authoring EXCEPT !.builder = next]
    /\ UNCHANGED <<pagesVars, clientVars, buildVars, callers>>

\* hash_to_discriminator(&format!("global:{}", name)), computed once before
\* the tool is written.
Discriminate(name) ==
    /\ authoring.pc = "none"
    /\ obs = NoObs
    /\ obs' = [op |-> "instruction_discriminator", cursor |-> 0,
               out |-> [name |-> name,
                        discriminator |-> hash_to_discriminator(global_preimage(name))]]
    /\ UNCHANGED <<schema, cached, clientVars, buildVars, programVars>>

New(name) ==
    /\ authoring.pc = "none"
    /\ authoring' = [pc |-> "writing", builder |-> McpToolBuilder_new(name),
                     tool |-> None, sized |-> None]
    /\ UNCHANGED <<pagesVars, clientVars, buildVars, callers>>

Description(desc) == Writing /\ Chain(description(authoring.builder, desc))

Account(name, is_s, is_w) ==
    CanPush /\ Chain(account(authoring.builder, name, is_s, is_w))

AccountWithDesc(name, desc, is_s, is_w) ==
    CanPush /\ Chain(account_with_desc(authoring.builder, name, desc, is_s, is_w))

Signer(name) == CanPush /\ Chain(signer(authoring.builder, name))

SignerDesc(name, desc) ==
    CanPush /\ Chain(signer_desc(authoring.builder, name, desc))

Writable(name) == CanPush /\ Chain(writable(authoring.builder, name))

WritableDesc(name, desc) ==
    CanPush /\ Chain(writable_desc(authoring.builder, name, desc))

SignerWritable(name) ==
    CanPush /\ Chain(signer_writable(authoring.builder, name))

SignerWritableDesc(name, desc) ==
    CanPush /\ Chain(signer_writable_desc(authoring.builder, name, desc))

PushArg(name, arg_type) ==
    CanPush /\ Chain(arg(authoring.builder, name, arg_type))

PushArgDesc(name, desc, arg_type) ==
    CanPush /\ Chain(arg_desc(authoring.builder, name, desc, arg_type))

Build ==
    /\ Writing
    /\ authoring' = [authoring EXCEPT !.pc = "built",
                                      !.tool = Some(McpToolBuilder_build(authoring.builder))]
    /\ UNCHANGED <<pagesVars, clientVars, buildVars, callers>>

\* The author adds the built tool to the schema and compares the estimates
\* with what the compact encoder writes.
EstimateSize ==
    /\ authoring.pc = "built"
    /\ authoring.sized = None
    /\ LET tool == Unwrap(authoring.tool)
           s    == McpSchemaBuilder_build(
                       add_tool([name |-> schema.name, tools |-> schema.tools], tool))
       IN  authoring' = [authoring EXCEPT !.sized = Some(
               [tool_estimate   |-> estimate_single_tool_size(Some(tool)),
                tool_len        |-> Len(generate_tool_json(tool)),
                none_estimate   |-> estimate_single_tool_size(None),
                schema_estimate |-> estimate_schema_size(s),
                schema_len      |-> Len(generate_compact_schema(s))])]
    /\ UNCHANGED <<pagesVars, clientVars, buildVars, callers>>

NextAuthor ==
    \/ \E name \in HashedNames : Discriminate(name)
    \/ \E name \in AuthorNames : New(name)
    \/ Description(AuthorText)
    \/ \E is_s \in BOOLEAN : Account(<<"a">>, is_s, FALSE)
    \/ \E is_w \in BOOLEAN : AccountWithDesc(<<"a">>, AuthorText, FALSE, is_w)
    \/ Signer(<<"a">>)
    \/ SignerDesc(<<"a">>, AuthorText)
    \/ Writable(<<"a">>)
    \/ WritableDesc(<<"a">>, AuthorText)
    \/ SignerWritable(<<"a">>)
    \/ SignerWritableDesc(<<"a">>, AuthorText)
    \/ PushArg(<<"n">>, "U64")
    \/ PushArgDesc(<<"n">>, AuthorText, "U8")
    \/ Build
    \/ EstimateSize

SpecAuthor == InitAuthor /\ [][NextAuthor]_vars

(***************************************************************************)
(* macros/src: #[mcp_program] expands a module into its compact schema     *)
(* (MCP_SCHEMA_BYTES) and a dispatcher; a client reads the schema, builds  *)
(* an instruction for a tool and the dispatcher processes it (SpecMacro).  *)
(***************************************************************************)
\* s.contains(pat)
str_contains(s, pat) ==
    \E i \in 1..(Len(s) - Len(pat) + 1) : SubSeq(s, i, i + Len(pat) - 1) = pat

RECURSIVE join(_, _)
\* parts.join(sep)
join(parts, sep) ==
    IF parts = <<>> THEN <<>>
    ELSE IF Len(parts) = 1 THEN parts[1]
    ELSE parts[1] \o sep \o join(Tail(parts), sep)

RECURSIVE escape_json(_)
\* mcp_gen.rs escape_json: the backslash is replaced first, then the quote
\* and the three control characters, so each character is escaped once.
escape_json(s) ==
    IF s = <<>> THEN <<>>
    ELSE LET c == Head(s) IN
         (CASE c = "\\" -> <<"\\", "\\">>
            [] c = "\"" -> <<"\\", "\"">>
            [] c = "\n" -> <<"\\", "n">>
            [] c = "\r" -> <<"\\", "r">>
            [] c = "\t" -> <<"\\", "t">>
            [] OTHER    -> <<c>>)
         \o escape_json(Tail(s))

\* program.rs rust_type_to_json_schema, for the types of the model's handlers.
rust_type_to_json_schema(rust_type) ==
    CASE rust_type \in {"u8", "u16", "u32", "u64", "u128", "usize"} ->
            <<"{", "\"", "t", "y", "p", "e", "\"", ":", "\"", "i", "n", "t", "e", "g", "e", "r",
              "\"", ",", "\"", "m", "i", "n", "i", "m", "u", "m", "\"", ":", "0", "}">>
      [] rust_type \in {"i8", "i16", "i32", "i64", "i128", "isize"} ->
            <<"{", "\"", "t", "y", "p", "e", "\"", ":", "\"", "i", "n", "t", "e", "g", "e", "r",
              "\"", "}">>
      [] rust_type = "bool" ->
            <<"{", "\"", "t", "y", "p", "e", "\"", ":", "\"", "b", "o", "o", "l", "e", "a", "n",
              "\"", "}">>
      [] OTHER ->
            <<"{", "\"", "t", "y", "p", "e", "\"", ":", "\"", "s", "t", "r", "i", "n", "g",
              "\"", "}">>

\* The ArgInfo extract_instructions pushes for a handler parameter.
ArgInfo(name, rust_type) ==
    [name |-> name, rust_type |-> rust_type, json_type |-> rust_type_to_json_schema(rust_type)]

\* "Map to compact type names"
compact_type(a) ==
    IF str_contains(a.json_type, <<"i", "n", "t", "e", "g", "e", "r">>) THEN <<"i", "n", "t">>
    ELSE IF str_contains(a.json_type, <<"b", "o", "o", "l", "e", "a", "n">>)
         THEN <<"b", "o", "o", "l">>
    ELSE <<"s", "t", "r">>

\* The account's property key: its name and the suffix of its flags.
account_key(acc) ==
    escape_json(acc.name) \o
    (CASE acc.is_signer /\ acc.is_writable  -> <<"_", "s", "w">>
       [] acc.is_signer /\ ~acc.is_writable -> <<"_", "s">>
       [] ~acc.is_signer /\ acc.is_writable -> <<"_", "w">>
       [] OTHER -> <<>>)

\* mcp_gen.rs generate_tool_schema
generate_tool_schema(ix) ==
    LET acc_props == [i \in 1..Len(ix.accounts) |->
                        <<"\"">> \o account_key(ix.accounts[i])
                        \o <<"\"", ":", "\"", "p", "u", "b", "k", "e", "y", "\"">>]
        acc_req   == [i \in 1..Len(ix.accounts) |->
                        <<"\"">> \o account_key(ix.accounts[i]) \o <<"\"">>]
        arg_props == [i \in 1..Len(ix.args) |->
                        <<"\"">> \o escape_json(ix.args[i].name) \o <<"\"", ":", "\"">>
                        \o compact_type(ix.args[i]) \o <<"\"">>]
        arg_req   == [i \in 1..Len(ix.args) |->
                        <<"\"">> \o escape_json(ix.args[i].name) \o <<"\"">>]
        properties == acc_props \o arg_props
        required   == acc_req \o arg_req
        disc_hex   == discriminator_to_hex(ix.discriminator)
        desc_part  == IF ix.tool_desc # <<>>
                      THEN <<",", "\"", "i", "\"", ":", "\"">> \o escape_json(ix.tool_desc)
                           \o <<"\"">>
                      ELSE <<>>
        head       == <<"{", "\"", "n", "\"", ":", "\"">> \o escape_json(ix.tool_name)
                      \o <<"\"">> \o desc_part \o <<",", "\"", "d", "\"", ":", "\"">>
                      \o disc_hex
    IN  IF properties = <<>> THEN head \o <<"\"", "}">>
        ELSE head \o <<"\"", ",", "\"", "p", "\"", ":", "{">> \o join(properties, <<",">>)
             \o <<"}", ",", "\"", "r", "\"", ":", "[">> \o join(required, <<",">>)
             \o <<"]", "}">>

\* mcp_gen.rs generate_schema_json: the tools and the built-in list_tools.
generate_schema_json(program_name, instructions) ==
    LET tools == [i \in 1..Len(instructions) |-> generate_tool_schema(instructions[i])]
                 \o << <<"{", "\"", "n", "\"", ":", "\"", "l", "i", "s", "t", "_", "t", "o",
                         "o", "l", "s", "\"", ",", "\"", "d", "\"", ":", "\"", "4", "2", "1",
                         "9", "5", "e", "6", "a", "5", "5", "f", "d", "4", "1", "c", "0",
                         "\"", "}">> >>
    IN  <<"{", "\"", "v", "\"", ":", "\"", "2", "0", "2", "4", "-", "1", "1", "-", "0", "5",
          "\"", ",", "\"", "n", "a", "m", "e", "\"", ":", "\"">>
        \o escape_json(program_name)
        \o <<"\"", ",", "\"", "t", "o", "o", "l", "s", "\"", ":", "[">>
        \o join(tools, <<",">>) \o <<"]", "}">>

\* program.rs get_type_size
get_type_size(rust_type) ==
    CASE rust_type \in {"u8", "i8", "bool"} -> Some(1)
      [] rust_type \in {"u16", "i16"}       -> Some(2)
      [] rust_type \in {"u32", "i32"}       -> Some(4)
      [] rust_type \in {"u64", "i64"}       -> Some(8)
      [] rust_type \in {"u128", "i128"}     -> Some(16)
      [] rust_type = "Pubkey"               -> Some(32)
      [] OTHER -> None

RECURSIVE calculate_expected_len_from(_, _)
calculate_expected_len_from(args, total) ==
    IF args = <<>> THEN Some(total)
    ELSE LET size == get_type_size(Head(args).rust_type) IN
         IF IsSome(size) THEN calculate_expected_len_from(Tail(args), total + Unwrap(size))
         ELSE None

\* program.rs calculate_expected_len: the discriminator and the arguments.
calculate_expected_len(args) == calculate_expected_len_from(args, 8)

RECURSIVE calculate_arg_offsets_from(_, _, _)
calculate_arg_offsets_from(args, offset, offsets) ==
    IF args = <<>> THEN Some(offsets)
    ELSE LET size == get_type_size(Head(args).rust_type) IN
         IF IsSome(size)
         THEN calculate_arg_offsets_from(Tail(args), offset + Unwrap(size),
                                         Append(offsets, offset))
         ELSE None

\* program.rs calculate_arg_offsets: offsets[i] is where args[i] is read.
calculate_arg_offsets(args) == calculate_arg_offsets_from(args, 8, <<>>)

\* The types generate_arg_parsing_optimized has a read for.
OptimizedTypes == {"u8", "u16", "u32", "u64", "i8", "i16", "i32", "i64", "bool"}

\* The value the generated read gives the handler: the size bytes at the
\* offset, least significant first; a bool is the byte compared with 0.
read_arg(instruction_data, offset, rust_type) ==
    LET size  == Unwrap(get_type_size(rust_type))
        bytes == SubSeq(instruction_data, offset + 1, offset + size)
    IN  IF rust_type = "bool" THEN (IF bytes[1] # 0 THEN <<1>> ELSE <<0>>) ELSE bytes

\* The code generate_arg_parsing_optimized emits for a handler all of whose
\* parameters have a read: the length check against __EXPECTED_LEN, then
\* the reads at the offsets computed at expansion.
generate_arg_parsing_optimized(args, instruction_data) ==
    IF args = <<>> THEN Ok(<<>>)
    ELSE LET offsets      == Unwrap(calculate_arg_offsets(args))
             expected_len == Unwrap(calculate_expected_len(args))
         IN  IF Len(instruction_data) < expected_len
             THEN Err(<<"InvalidInstructionData">>)
             ELSE Ok([i \in 1..Len(args) |->
                        read_arg(instruction_data, offsets[i], args[i].rust_type)])

\* program.rs generate_dispatcher: __mcpsol_process_instruction.  "handler"
\* is the instruction whose arm matched and "received" its arguments.
process_instruction(instructions, instruction_data) ==
    IF Len(instruction_data) < 8 THEN Err(<<"InvalidInstructionData">>)
    ELSE LET discriminator == SubSeq(instruction_data, 1, 8)
             arms == SelectSeq(instructions, LAMBDA ix : ix.discriminator = discriminator)
         IN  IF discriminator = instruction_discriminator(
                                    <<"l", "i", "s", "t", "_", "t", "o", "o", "l", "s">>)
             THEN Ok([handler |-> <<"l", "i", "s", "t", "_", "t", "o", "o", "l", "s">>,
                      received |-> <<>>])
             ELSE IF arms = <<>> THEN Err(<<"InvalidInstructionData">>)
             ELSE LET parsed_args == generate_arg_parsing_optimized(arms[1].args,
                                                                    instruction_data)
                  IN  IF ~parsed_args.ok THEN parsed_args
                      ELSE Ok([handler |-> arms[1].tool_name,
                               received |-> Unwrap(parsed_args.val)])

MacroArgNames == << <<"a">>, <<"b">> >>

\* The parameter lists of the handler: up to two parameters of the types
\* the dispatcher reads at expansion-time offsets.
MacroArgLists ==
    {<<>>}
    \cup { <<ArgInfo(MacroArgNames[1], t)>> : t \in OptimizedTypes }
    \cup { <<ArgInfo(MacroArgNames[1], t), ArgInfo(MacroArgNames[2], u)>> :
             t \in OptimizedTypes, u \in OptimizedTypes }

MacroAccountLists ==
    { <<>>, <<[name |-> <<"c">>, is_signer |-> FALSE, is_writable |-> TRUE]>> }

\* The InstructionInfo extract_instructions makes of the handler "pay".
InstructionInfo(accounts, args) ==
    [tool_name     |-> <<"p", "a", "y">>,
     tool_desc     |-> <<>>,
     discriminator |-> instruction_discriminator(<<"p", "a", "y">>),
     args          |-> args,
     accounts      |-> accounts]

\* The texts a caller passes for an argument.
MacroArgValues ==
    { <<"1">>, <<"2">>, <<"3", "0", "0">>, <<"-", "1">>, <<"t", "r", "u", "e">> }

InitMacro ==
    /\ ProgramIdle
    /\ BuildIdle
    /\ preserve_order \in BOOLEAN
    /\ schema = ServerSchema(0)
    /\ cached = None
    /\ obs = NoObs
    /\ serverMode = "native"
    /\ client = IdleClient
    /\ rpc = IdleRpc
    /\ fetches = <<>>
    /\ pages = <<>>
    /\ failedAt = 0

\* #[mcp_program] expands the module: the schema text and the dispatcher's
\* arms are made from the same InstructionInfo.
McpProgram(accounts, args) ==
    /\ authoring = NoAuthor
    /\ LET instructions == <<InstructionInfo(accounts, args)>> IN
       authoring' = [pc |-> "expanded",
                     instructions |-> instructions,
                     MCP_SCHEMA_BYTES |-> generate_schema_json(<<"p">>, instructions)]
    /\ UNCHANGED <<pagesVars, clientVars, buildVars, callers>>

\* The client sends list_tools; the dispatcher's list_tools arm returns
\* MCP_SCHEMA_BYTES and the client reads them with serde_json::from_slice.
FetchSchema ==
    /\ authoring.pc = "expanded"
    /\ parsed = None
    /\ LET result == from_slice(authoring.MCP_SCHEMA_BYTES, preserve_order) IN
       /\ result.ok
       /\ parsed' = Unwrap(result.val)
    /\ UNCHANGED <<pagesVars, clientVars, built, programVars>>

\* client.build_instruction for the tool, every account supplied and one
\* text for each argument.
CallTool(values) ==
    /\ authoring.pc = "expanded"
    /\ parsed # None
    /\ built = NoCall
    /\ LET ix       == authoring.instructions[1]
           accounts == [i \in 1..Len(ix.accounts) |-> <<ix.accounts[i].name, "A">>]
           args     == [i \in 1..Len(ix.args) |-> <<ix.args[i].name, values[i]>>]
       IN  built' = [op |-> "build", tool_name |-> ix.tool_name, accounts |-> accounts,
                     args |-> args,
                     result |-> build_instruction("P", ix.tool_name, accounts, args, parsed)]
    /\ UNCHANGED <<parsed, pagesVars, clientVars, programVars>>

\* The transaction reaches the program: the dispatcher processes the data
\* of the instruction the client built.
ProcessInstruction ==
    /\ built # NoCall
    /\ built.result.ok
    /\ obs = NoObs
    /\ obs' = [op |-> "process_instruction", cursor |-> 0,
               out |-> process_instruction(authoring.instructions,
                                           Unwrap(built.result.val).data)]
    /\ UNCHANGED <<schema, cached, clientVars, buildVars, programVars>>

NextMacro ==
    \/ \E accounts \in MacroAccountLists, args \in MacroArgLists : McpProgram(accounts, args)
    \/ FetchSchema
    \/ \E v1 \in MacroArgValues, v2 \in MacroArgValues : CallTool(<<v1, v2>>)
    \/ ProcessInstruction

SpecMacro == InitMacro /\ [][NextMacro]_vars

(***************************************************************************)
(* Properties of the paginated encoder and the page cache (SpecPages).     *)
(***************************************************************************)
tool_count == Len(schema.tools)

\* The members of the page object in obs.out, read leniently; <<>> if it is
\* not an object.
PageMembers ==
    LET d == ParseDocument(obs.out, FALSE) IN
    IF d.ok /\ d.v.t = "obj" THEN d.v.m ELSE <<>>

PageIsObject ==
    LET d == ParseDocument(obs.out, FALSE) IN d.ok /\ d.v.t = "obj"

\* C1 as stated: for every cursor 0..255 the cache returns the bytes the
\* paginated encoder produces for that cursor.
C1_CacheEqualsEncoderAllCursors ==
    obs.op = "get_page" =>
        obs.out = generate_paginated_schema_bytes(schema, obs.cursor)

\* C1 amended: for every cursor below max(tool_count, 1) the cache returns the
\* bytes the paginated encoder produces for that cursor; for every other
\* cursor the cache returns an empty buffer, which the encoder never produces.
C1_CacheEqualsEncoderInRange ==
    obs.op = "get_page" =>
        IF obs.cursor < Max(tool_count, 1)
        THEN obs.out = generate_paginated_schema_bytes(schema, obs.cursor)
        ELSE /\ obs.out = <<>>
             /\ generate_paginated_schema_bytes(schema, obs.cursor) # <<>>

C1_Witness ==
    /\ obs.op = "get_page"
    /\ obs.cursor >= 1
    /\ obs.cursor < tool_count
    /\ obs.out # <<>>

\* C2: the page for cursor c carries a nextCursor member iff c + 1 <
\* tool_count, and then exactly one, the decimal string of c + 1.
C2_NextCursorIffMoreTools ==
    obs.op = "generate" =>
        LET nc == Members(PageMembers, {<<"n", "e", "x", "t", "C", "u", "r", "s", "o", "r">>}) IN
        /\ PageIsObject
        /\ (nc # <<>>) <=> (obs.cursor + 1 < tool_count)
        /\ nc # <<>> =>
            /\ Len(nc) = 1
            /\ nc[1].t = "str"
            /\ nc[1].s = DecimalString(obs.cursor + 1)

C2_Witness ==
    /\ obs.op = "generate"
    /\ obs.cursor >= 1
    /\ obs.cursor + 1 < tool_count
    /\ Members(PageMembers, {<<"n", "e", "x", "t", "C", "u", "r", "s", "o", "r">>})
         = <<JStr(DecimalString(obs.cursor + 1))>>

\* The keys of the parameters object the verbose encoder emits for a tool:
\* the account names, then the arg names.
DeclaredKeys(tool) ==
    [i \in 1..Len(tool.accounts) |-> tool.accounts[i].name]
    \o [i \in 1..Len(tool.args) |-> tool.args[i].name]

\* Whether the JSON object v describes the tool: its name, description,
\* discriminator and the keys of its parameters, in order.
DescribesTool(v, tool) ==
    /\ v.t = "obj"
    /\ Members(v.m, {<<"n", "a", "m", "e">>}) = <<JStr(tool.name)>>
    /\ Members(v.m, {<<"d", "e", "s", "c", "r", "i", "p", "t", "i", "o", "n">>})
         = [i \in 1..Len(tool.description) |-> JStr(tool.description[i])]
    /\ Members(v.m, {<<"d", "i", "s", "c", "r", "i", "m", "i", "n", "a", "t", "o", "r">>})
         = <<JStr(discriminator_to_hex(tool.discriminator))>>
    /\ LET ps == Members(v.m, {<<"p", "a", "r", "a", "m", "e", "t", "e", "r", "s">>}) IN
       IF DeclaredKeys(tool) = <<>> THEN ps = <<>>
       ELSE /\ Len(ps) = 1
            /\ ps[1].t = "obj"
            /\ [i \in 1..Len(ps[1].m) |-> ps[1].m[i][1]] = DeclaredKeys(tool)

\* C3: the tools array of the page for cursor c holds exactly the tool at
\* index c when c < tool_count; otherwise it is empty and the page has no
\* nextCursor.
C3_OneToolOrEmpty ==
    obs.op = "generate" =>
        LET ts == Members(PageMembers, {<<"t", "o", "o", "l", "s">>})
            nc == Members(PageMembers, {<<"n", "e", "x", "t", "C", "u", "r", "s", "o", "r">>})
        IN  /\ PageIsObject
            /\ Len(ts) = 1
            /\ ts[1].t = "arr"
            /\ IF obs.cursor < tool_count
               THEN /\ Len(ts[1].e) = 1
                    /\ DescribesTool(ts[1].e[1], schema.tools[obs.cursor + 1])
               ELSE /\ ts[1].e = <<>>
                    /\ nc = <<>>

C3_Witness ==
    /\ obs.op = "generate"
    /\ obs.cursor = 1
    /\ tool_count = 3
    /\ schema.tools[2].accounts # <<>>
    /\ schema.tools[2].args # <<>>
    /\ DescribesTool(Members(PageMembers, {<<"t", "o", "o", "l", "s">>})[1].e[1], schema.tools[2])

\* C4: the cache holds max(tool_count, 1) pages, and get_page returns an
\* empty buffer iff the cursor is at or beyond that number.
C4_PageCountAndEmptyOutOfRange ==
    /\ IsSome(cached) => num_pages(Unwrap(cached)) = Max(tool_count, 1)
    /\ obs.op = "get_page" => ((obs.out = <<>>) <=> (obs.cursor >= Max(tool_count, 1)))

C4_Witness ==
    /\ obs.op = "get_page"
    /\ tool_count = 0
    /\ obs.cursor = 1
    /\ obs.out = <<>>
    /\ num_pages(Unwrap(cached)) = 1

(***************************************************************************)
(* Properties of list_tools_full (SpecClient, SpecClientFair).             *)
(***************************************************************************)
Min(a, b) == IF a < b THEN a ELSE b

Returned == client.pc = "done" /\ client.result.kind = "ok"

LastPage == pages[Len(pages)]

\* Whether the parsed tool is the schema's tool: its name, description and
\* discriminator.
IsParsedFrom(pt, tool) ==
    /\ pt.name = tool.name
    /\ pt.description = tool.description
    /\ pt.discriminator = discriminator_to_hex(tool.discriminator)

\* C5 as stated: against a program serving the paginated encoder's pages of
\* an N-tool schema, list_tools_full performs exactly N page fetches and the
\* last page fetched carries no nextCursor.
C5_ExactlyNFetches ==
    (serverMode = "native" /\ Returned) =>
        /\ Len(fetches) = tool_count
        /\ ~LastPage.has_next

\* C5 amended: against a program serving the paginated encoder's pages of an
\* N-tool schema, a list_tools_full that returns a schema has performed
\* min(max(N, 1), SAFETY_CAP + 1) page fetches, and the last page it fetched
\* carries no nextCursor iff N <= SAFETY_CAP + 1.
C5_FetchesUpToCap ==
    (serverMode = "native" /\ Returned) =>
        /\ Len(fetches) = Min(Max(tool_count, 1), SAFETY_CAP + 1)
        /\ Len(pages) = Len(fetches)
        /\ ~LastPage.has_next <=> tool_count <= SAFETY_CAP + 1

C5_Witness ==
    /\ serverMode = "native"
    /\ Returned
    /\ tool_count = 3
    /\ Len(fetches) = 3
    /\ ~LastPage.has_next

\* C6 as stated: list_tools_full never performs more than 100 page fetches.
C6_AtMost100Fetches == Len(fetches) <= SAFETY_CAP

\* C6 amended: list_tools_full always terminates, and it never performs
\* more than SAFETY_CAP + 1 = 101 page fetches (the first one and the 100 of
\* the loop), whatever the program answers.
C6_TerminatesWithinCap ==
    <>(client.pc = "done" /\ rpc.kind = "idle" /\ Len(fetches) <= SAFETY_CAP + 1)

C6_Witness ==
    /\ serverMode = "hostile"
    /\ Returned
    /\ \A i \in 1..Len(pages) : pages[i].has_next
    /\ Len(pages) = SAFETY_CAP + 1
    /\ Len(fetches) = SAFETY_CAP + 1

\* C7: the k-th fetch uses cursor k - 1; the tool list returned is the
\* concatenation of the fetched pages' tools in fetch order; against a
\* program serving the paginated encoder's pages of an N-tool schema with N
\* within the cap, the list returned holds the N tools in schema order.
C7_ConsecutiveCursorsAndConcatenation ==
    /\ \A k \in 1..Len(fetches) : fetches[k] = k - 1
    /\ rpc.kind = "request" => rpc.data = list_tools_request(Len(fetches) - 1)
    /\ Returned =>
         Unwrap(client.result.schema).tools = Concat([i \in 1..Len(pages) |-> pages[i].tools])
    /\ (Returned /\ serverMode = "native" /\ tool_count <= SAFETY_CAP) =>
         LET ts == Unwrap(client.result.schema).tools IN
         /\ Len(ts) = tool_count
         /\ \A i \in 1..tool_count : IsParsedFrom(ts[i], schema.tools[i])

C7_Witness ==
    /\ Returned
    /\ serverMode = "native"
    /\ tool_count = SAFETY_CAP
    /\ fetches = [k \in 1..SAFETY_CAP |-> k - 1]
    /\ Len(Unwrap(client.result.schema).tools) = SAFETY_CAP
    /\ IsParsedFrom(Unwrap(client.result.schema).tools[SAFETY_CAP], schema.tools[SAFETY_CAP])

\* The error list_tools_page returns for the answer in rpc.
PageError ==
    CASE rpc.outcome = "rpc_error"      -> "Rpc"
      [] rpc.outcome = "no_return_data" -> "NoReturnData"
      [] OTHER                          -> "ParseSchema"

\* C8: when a page fetch fails (transport error, no return data, page that
\* does not decode or parse), list_tools_full returns that error at once:
\* no further fetch is made, and no tool list is returned.
C8_FailureReturnsErrorAtOnce ==
    /\ [](failedAt # 0 =>
            /\ client.pc = "done"
            /\ client.result.kind = "err"
            /\ client.result.schema = None
            /\ Len(fetches) = failedAt
            /\ rpc.kind = "idle")
    /\ [][(rpc.kind = "response"
              /\ (rpc.outcome # "data" \/ ~from_slice(rpc.data, preserve_order).ok))
           => /\ failedAt' = Len(fetches)
              /\ fetches' = fetches
              /\ client'.result = [kind |-> "err", err |-> PageError, schema |-> None]]_vars

C8_Witness ==
    /\ failedAt >= 2
    /\ Len(pages) = failedAt - 1
    /\ client.pc = "done"
    /\ client.result = [kind |-> "err", err |-> "ParseSchema", schema |-> None]
    /\ serverMode = "native"

(***************************************************************************)
(* Properties of build_instruction (SpecBuild).                            *)
(***************************************************************************)
Built == built.op = "build" /\ built.result.ok

\* The tool build_instruction works on: the first of that name.
BuiltTool == SelectSeq(parsed.tools, LAMBDA t : t.name = built.tool_name)[1]

\* The required parameters of the tool that are accounts, and those that
\* are not, each in required_params order.
AccountParams == SelectSeq(required_params(BuiltTool), LAMBDA r : is_account(BuiltTool, r))

ArgParams == SelectSeq(required_params(BuiltTool), LAMBDA r : ~is_account(BuiltTool, r))

\* C9: on success the account list has one entry per required parameter that
\* is an account, in required_params order, each with an address the caller
\* supplied under the exact key or the base name and with the parameter's
\* is_signer and is_writable flags; other parameters contribute no entry.
C9_AccountListFollowsRequiredOrder ==
    Built =>
        LET metas == Unwrap(built.result.val).accounts IN
        /\ Len(metas) = Len(AccountParams)
        /\ \A i \in 1..Len(AccountParams) :
            /\ \E j \in 1..Len(built.accounts) :
                /\ built.accounts[j][1] \in {AccountParams[i], base_name(AccountParams[i])}
                /\ built.accounts[j][2] = metas[i].pubkey
            /\ metas[i].is_signer = is_signer(BuiltTool, AccountParams[i])
            /\ metas[i].is_writable = is_writable(BuiltTool, AccountParams[i])

\* The build-call example: required [counter_w, authority_s, amount] with
\* counter = C and authority = A.
C9_Witness ==
    /\ Built
    /\ built.tool_name = <<"i", "n", "c", "r", "e", "m", "e", "n", "t">>
    /\ required_params(BuiltTool) = <<<<"c", "o", "u", "n", "t", "e", "r", "_", "w">>, <<"a", "u", "t", "h", "o", "r", "i", "t", "y", "_", "s">>, <<"a", "m", "o", "u", "n", "t">>>>
    /\ built.accounts = <<<<<<"c", "o", "u", "n", "t", "e", "r">>, "C">>, <<<<"a", "u", "t", "h", "o", "r", "i", "t", "y">>, "A">>>>
    /\ Unwrap(built.result.val).accounts =
         <<[pubkey |-> "C", is_signer |-> FALSE, is_writable |-> TRUE],
           [pubkey |-> "A", is_signer |-> TRUE, is_writable |-> FALSE]>>

\* The text the caller gave for a parameter: the first pair of that name.
ArgText(required) == SelectSeq(built.args, LAMBDA a : a[1] = required)[1][2]

\* The type an arg is encoded by: its declared type, else "str".
ArgTypeOf(required) ==
    IF IsSome(get_param_type(BuiltTool, required))
    THEN Unwrap(get_param_type(BuiltTool, required)) ELSE <<"s", "t", "r">>

\* C10: on success the payload is the tool's 8 discriminator bytes followed
\* by the encodings of the required parameters that are not accounts, in
\* required_params order; account parameters contribute no byte.
C10_PayloadIsDiscriminatorThenArgs ==
    Built =>
        LET data == Unwrap(built.result.val).data IN
        /\ Len(data) >= 8
        /\ SubSeq(data, 1, 8) = SubSeq(Unwrap(hex_decode(BuiltTool.discriminator).val), 1, 8)
        /\ SubSeq(data, 9, Len(data)) =
             Concat([i \in 1..Len(ArgParams) |->
                        Unwrap(encode_arg(ArgTypeOf(ArgParams[i]), ArgText(ArgParams[i]),
                                          ArgParams[i]).val)])

\* A tool whose required list interleaves accounts and args: n (str),
\* vault_sw, flag (bool), k, ghost (undeclared, hence str).
C10_Witness ==
    /\ Built
    /\ built.tool_name = <<"m", "i", "x">>
    /\ Len(AccountParams) = 2
    /\ built.args = <<<<<<"n">>, <<"h", "i">>>>, <<<<"f", "l", "a", "g">>, <<"t", "r", "u", "e">>>>,
                      <<<<"g", "h", "o", "s", "t">>, <<"g">>>>>>
    /\ Unwrap(built.result.val).data =
         <<13, 78, 228, 33, 33, 212, 236, 47>> \o <<2, 0, 0, 0, 104, 105>> \o <<1>> \o <<1, 0, 0, 0, 103>>

(***************************************************************************)
(* Encoding of scalar arguments by declared type (SpecBuild).              *)
(***************************************************************************)
\* The integer argument types the claims name, with the width in bytes each
\* is to be encoded in; 0 for any other type.
IntegerWidth(arg_type) ==
    CASE arg_type \in {<<"u", "8">>, <<"i", "8">>}                     -> 1
      [] arg_type \in {<<"u", "1", "6">>, <<"i", "1", "6">>}           -> 2
      [] arg_type \in {<<"u", "3", "2">>, <<"i", "3", "2">>}           -> 4
      [] arg_type \in {<<"u", "6", "4">>, <<"i", "6", "4">>}           -> 8
      [] arg_type \in {<<"u", "1", "2", "8">>, <<"i", "1", "2", "8">>} -> 16
      [] OTHER -> 0

\* The little-endian bytes of the decimal text in the integer type (two's
\* complement for the signed types); None if the text is not a decimal
\* integer within the type's range.
IntegerBytes(arg_type, text) ==
    IF Head(arg_type) = "i" THEN parse_signed(text, IntegerWidth(arg_type))
    ELSE parse_unsigned(text, IntegerWidth(arg_type))

\* A call on a tool whose only required parameter is a scalar, for which the
\* caller gave a text.
OneScalarCall ==
    /\ built.op = "build"
    /\ \E t \in 1..Len(parsed.tools) : parsed.tools[t].name = built.tool_name
    /\ Len(required_params(BuiltTool)) = 1
    /\ Len(ArgParams) = 1
    /\ \E a \in 1..Len(built.args) : built.args[a][1] = ArgParams[1]

\* C11 as stated: an in-range text for an argument of one of the ten integer
\* types is encoded as the 1/2/4/8/16 little-endian bytes of its value, so
\* the payload is the discriminator followed by exactly these bytes.
C11_IntegersFixedWidthLittleEndian ==
    (/\ OneScalarCall
     /\ IntegerWidth(ArgTypeOf(ArgParams[1])) > 0
     /\ IsSome(IntegerBytes(ArgTypeOf(ArgParams[1]), ArgText(ArgParams[1]))))
    => /\ built.result.ok
       /\ Unwrap(built.result.val).data =
            Unwrap(discriminator_bytes(BuiltTool).val)
            \o Unwrap(IntegerBytes(ArgTypeOf(ArgParams[1]), ArgText(ArgParams[1])))

\* The tool of EncodedSchema the call names, as it was declared.
DeclaredTool ==
    SelectSeq(EncodedSchema.tools, LAMBDA t : t.name = built.tool_name)[1]

\* A call on pay, parsed from the compact encoding, with the declared signer
\* account a supplied (under its key or base name) and a text for v.
PubkeyArgCall ==
    /\ built.op = "build"
    /\ built.tool_name = <<"p", "a", "y">>
    /\ \E t \in 1..Len(parsed.tools) : parsed.tools[t].name = built.tool_name
    /\ DeclaredTool.args = <<[name |-> <<"v">>, description |-> None, arg_type |-> "Pubkey"]>>
    /\ \E j \in 1..Len(built.accounts) : built.accounts[j][1] \in {<<"a", "_", "s">>, <<"a">>}
    /\ \E a \in 1..Len(built.args) : built.args[a][1] = <<"v">>

\* C12 as stated: the address argument v is read from the scalar inputs; a
\* valid address puts its 32 bytes in the payload after the discriminator
\* and adds nothing to the account list, a bad one fails with InvalidPubkey.
C12_PubkeyArgEncodedInPayload ==
    PubkeyArgCall =>
        LET pk == Pubkey_from_str(ArgText(<<"v">>)) IN
        IF IsSome(pk)
        THEN /\ built.result.ok
             /\ Unwrap(built.result.val).data = DeclaredTool.discriminator \o Unwrap(pk)
             /\ Len(Unwrap(built.result.val).data) = 8 + 32
             /\ Len(Unwrap(built.result.val).accounts) = Len(DeclaredTool.accounts)
        ELSE built.result = Err(<<"InvalidPubkey", <<"v">>>>)

(***************************************************************************)
(* Failures of build_instruction (SpecBuild).                              *)
(***************************************************************************)
\* The schema holds a tool of the requested name.
ToolFound ==
    \E t \in 1..Len(parsed.tools) : parsed.tools[t].name = built.tool_name

\* The caller gave an account under the parameter's key or its base name.
HasAccount(required) ==
    \E j \in 1..Len(built.accounts) :
        built.accounts[j][1] \in {required, base_name(required)}

\* The caller gave a text under the parameter's exact name.
HasArg(required) ==
    \E a \in 1..Len(built.args) : built.args[a][1] = required

\* The positions in required_params of the parameters without a value:
\* pubkey-typed ones (is_account) without an account, others without a text.
MissingAccounts ==
    {i \in 1..Len(required_params(BuiltTool)) :
        /\ is_account(BuiltTool, required_params(BuiltTool)[i])
        /\ ~HasAccount(required_params(BuiltTool)[i])}

MissingArgs ==
    {i \in 1..Len(required_params(BuiltTool)) :
        /\ ~is_account(BuiltTool, required_params(BuiltTool)[i])
        /\ ~HasArg(required_params(BuiltTool)[i])}

SetMin(S) == CHOOSE i \in S : \A j \in S : i <= j

\* Every scalar before position i of required_params has a text that its
\* type accepts.
EarlierScalarsEncode(i) ==
    \A k \in 1..(i - 1) :
        LET r == required_params(BuiltTool)[k] IN
        ~is_account(BuiltTool, r) =>
            HasArg(r) /\ encode_arg(ArgTypeOf(r), ArgText(r), r).ok

\* C13 as stated: ToolNotFound exactly when no tool has the name; whenever a
\* required account or scalar has no value the call fails with MissingParam
\* naming such a parameter; a failure carries no instruction.
C13_MissingParamWheneverValueMissing ==
    built.op = "build" =>
        /\ (built.result = Err(<<"ToolNotFound", built.tool_name>>)) <=> ~ToolFound
        /\ (ToolFound /\ MissingAccounts \cup MissingArgs # {}) =>
              \E i \in MissingAccounts \cup MissingArgs :
                 built.result = Err(<<"MissingParam", required_params(BuiltTool)[i]>>)
        /\ ~built.result.ok => built.result.val = None

\* C13 amended: ToolNotFound exactly when no tool has the name.  When the
\* tool exists, a pubkey-typed required parameter without an account makes
\* the call fail with MissingParam naming the first such parameter; when
\* there is none, the discriminator decodes and every scalar before the
\* first one without a text encodes, the call fails with MissingParam
\* naming that scalar.  Whenever a required parameter has no value the call
\* fails, and a failure carries no instruction.
C13_FirstFailureInOrder ==
    built.op = "build" =>
        /\ (built.result = Err(<<"ToolNotFound", built.tool_name>>)) <=> ~ToolFound
        /\ (ToolFound /\ MissingAccounts # {}) =>
              built.result =
                 Err(<<"MissingParam", required_params(BuiltTool)[SetMin(MissingAccounts)]>>)
        /\ (/\ ToolFound
            /\ MissingAccounts = {}
            /\ MissingArgs # {}
            /\ discriminator_bytes(BuiltTool).ok
            /\ EarlierScalarsEncode(SetMin(MissingArgs))) =>
              built.result =
                 Err(<<"MissingParam", required_params(BuiltTool)[SetMin(MissingArgs)]>>)
        /\ (ToolFound /\ MissingAccounts \cup MissingArgs # {}) => ~built.result.ok
        /\ ~built.result.ok => built.result.val = None

\* mix requires n, vault_sw, flag, k, ghost: with both accounts given and
\* texts for n and flag only, the call fails naming ghost.
C13_Witness ==
    /\ built.op = "build"
    /\ built.tool_name = <<"m", "i", "x">>
    /\ ToolFound
    /\ MissingAccounts = {}
    /\ MissingArgs = {5}
    /\ EarlierScalarsEncode(5)
    /\ built.result = Err(<<"MissingParam", <<"g", "h", "o", "s", "t">>>>)

\* The text is acceptable for the declared type: a decimal integer within
\* the range of an integer type, or true / false for bool.
ValidText(arg_type, text) ==
    IF arg_type = <<"b", "o", "o", "l">>
    THEN text \in {<<"t", "r", "u", "e">>, <<"f", "a", "l", "s", "e">>}
    ELSE IsSome(IntegerBytes(arg_type, text))

\* C14 as stated: a text that is not a decimal integer within the range of
\* the declared integer type, or not a boolean for bool, makes the call fail
\* with the invalid-value error naming the parameter; nothing is encoded.
C14_InvalidTextRejected ==
    (/\ OneScalarCall
     /\ discriminator_bytes(BuiltTool).ok
     /\ \/ IntegerWidth(ArgTypeOf(ArgParams[1])) > 0
        \/ ArgTypeOf(ArgParams[1]) = <<"b", "o", "o", "l">>
     /\ ~ValidText(ArgTypeOf(ArgParams[1]), ArgText(ArgParams[1])))
    => built.result = Err(<<"InvalidArg", ArgParams[1]>>)

\* The type tokens the argument match of build_instruction has an arm for.
RecognisedTypes == {
    <<"i", "n", "t">>, <<"u", "8">>, <<"u", "1", "6">>, <<"u", "3", "2">>, <<"u", "6", "4">>,
    <<"u", "1", "2", "8">>, <<"i", "8">>, <<"i", "1", "6">>, <<"i", "3", "2">>,
    <<"i", "6", "4">>, <<"b", "o", "o", "l">>, <<"p", "u", "b", "k", "e", "y">>,
    <<"s", "t", "r">>, <<"b", "y", "t", "e", "s">> }

\* A text as a string argument: its length in four little-endian bytes, then
\* its bytes.
StringBytes(text) ==
    <<Len(text) % 256, (Len(text) \div 256) % 256, 0, 0>>
    \o [i \in 1..Len(text) |-> Code(text[i])]

\* C15: a scalar whose declared type is not a recognised token never makes
\* the call fail: no invalid-value error names it, and on success its text
\* is in the payload as a string (length prefix, raw bytes) at its position.
C15_UnknownTypeEncodedAsString ==
    (built.op = "build" /\ ToolFound) =>
        /\ \A i \in 1..Len(ArgParams) :
              ~(ArgTypeOf(ArgParams[i]) \in RecognisedTypes) =>
                 /\ built.result # Err(<<"InvalidArg", ArgParams[i]>>)
                 /\ built.result # Err(<<"InvalidPubkey", ArgParams[i]>>)
        /\ (/\ MissingAccounts = {}
            /\ MissingArgs = {}
            /\ discriminator_bytes(BuiltTool).ok
            /\ \A i \in 1..Len(ArgParams) : ~(ArgTypeOf(ArgParams[i]) \in RecognisedTypes)) =>
              /\ built.result.ok
              /\ Unwrap(built.result.val).data =
                   Unwrap(discriminator_bytes(BuiltTool).val)
                   \o Concat([i \in 1..Len(ArgParams) |-> StringBytes(ArgText(ArgParams[i]))])

\* The tool whose parameter v has the type "string": the text 1x is
\* encoded as 02 00 00 00 31 78.
C15_Witness ==
    /\ Built
    /\ built.tool_name = <<"s", "t", "r", "i", "n", "g">>
    /\ ArgParams = <<<<"v">>>>
    /\ ArgTypeOf(<<"v">>) = <<"s", "t", "r", "i", "n", "g">>
    /\ ArgText(<<"v">>) = <<"1", "x">>
    /\ Unwrap(built.result.val).data = <<45, 87, 30, 115, 26, 28, 132, 185, 2, 0, 0, 0, 49, 120>>

(***************************************************************************)
(* Properties of the decoder's accessors (SpecDecode).                     *)
(***************************************************************************)
\* The text is hex: an even number of characters, each one of 0-9, a-f, A-F.
IsHexText(text) ==
    /\ Len(text) % 2 = 0
    /\ \A i \in 1..Len(text) :
          text[i] \in {"0", "1", "2", "3", "4", "5", "6", "7", "8", "9",
                       "a", "b", "c", "d", "e", "f", "A", "B", "C", "D", "E", "F"}

\* Byte i of a hex text.
HexByte(text, i) == 16 * HexValue(text[2 * i - 1]) + HexValue(text[2 * i])

\* C16 as stated: discriminator_bytes returns Ok with the first 8 decoded
\* bytes exactly when the text is valid hex of at least 8 bytes, and a
\* ParseSchema error for every other text.
C16_OkIffValidHexOfEightBytes ==
    built.op = "discriminator_bytes" =>
        IF IsHexText(built.discriminator) /\ Len(built.discriminator) >= 16
        THEN built.result = Ok([i \in 1..8 |-> HexByte(built.discriminator, i)])
        ELSE built.result = Err(<<"ParseSchema">>)

\* The tool of the built schema that ReadTool read: tool t of a compact
\* document, the tool at the cursor of a page.
ReadSource ==
    IF obs.op = "compact" THEN schema.tools[built.tool] ELSE schema.tools[obs.cursor + 1]

\* The required-parameter list of a built tool: each account's name plus its
\* suffix in declared order, then each arg's name in declared order.
DeclaredRequired(tool) ==
    [i \in 1..Len(tool.accounts) |-> tool.accounts[i].name \o suffix(tool.accounts[i])]
    \o [i \in 1..Len(tool.args) |-> tool.args[i].name]

\* C17 as stated: the compact encoding of every built schema decodes, and
\* the decoded schema has, tool by tool in order, the original name, the
\* original 8 discriminator bytes and the required list of accounts (name
\* plus suffix) followed by args.
C17_CompactRoundTrip ==
    /\ obs.op = "compact" =>
          /\ obs.ok
          /\ Len(parsed.tools) = Len(schema.tools)
          /\ \A t \in 1..Len(schema.tools) : parsed.tools[t].name = schema.tools[t].name
    /\ (obs.op = "compact" /\ built.op = "read") =>
          /\ built.discriminator_bytes = Ok(ReadSource.discriminator)
          /\ built.required_params = DeclaredRequired(ReadSource)

\* C18 as stated: for every account of a built tool, whatever its name,
\* is_signer and is_writable of the compact key the encoder emitted for it
\* (the account's entry of the required list) equal the declared flags.
C18_FlagsSurviveCompactKey ==
    (obs.op = "compact" /\ built.op = "read") =>
        \A j \in 1..Len(ReadSource.accounts) :
            /\ built.required_params[j] =
                 ReadSource.accounts[j].name \o suffix(ReadSource.accounts[j])
            /\ built.is_signer[j] = ReadSource.accounts[j].is_signer
            /\ built.is_writable[j] = ReadSource.accounts[j].is_writable

\* The key ends in none of the suffix tokens.
Unsuffixed(key) ==
    /\ ~ends_with(key, <<"_", "s">>)
    /\ ~ends_with(key, <<"_", "w">>)
    /\ ~ends_with(key, <<"_", "s", "w">>)

\* C19 as stated: base_name of the key the encoder emitted for an account
\* (its name plus one suffix token) is the account's name, and a key that
\* ends in no suffix token is returned unchanged.
C19_BaseNameStripsOneSuffix ==
    (obs.op = "compact" /\ built.op = "read") =>
        /\ \A j \in 1..Len(ReadSource.accounts) :
              built.base_name[j] = ReadSource.accounts[j].name
        /\ \A j \in 1..Len(built.required_params) :
              Unsuffixed(built.required_params[j]) =>
                 built.base_name[j] = built.required_params[j]

\* C20 as stated: for the tool decoded from a paginated page,
\* required_params is every parameter key in the order the encoder emitted
\* them: the account names in declared order, then the arg names.
C20_VerboseRequiredInDeclaredOrder ==
    (obs.op = "page" /\ built.op = "read") =>
        built.required_params = DeclaredKeys(ReadSource)

(***************************************************************************)
(* The two wire shapes give the same call (SpecDecode).                    *)
(***************************************************************************)
\* C21 as stated: with the same caller inputs, the call built from the
\* compact document and the call built from the tool's page have the same
\* outcome: both succeed with the same account list and payload, or both
\* fail.
C21_CompactAndVerboseBuildAgree ==
    built.op = "both" =>
        /\ built.compact.ok = built.verbose.ok
        /\ built.compact.ok =>
              /\ Unwrap(built.compact.val).accounts = Unwrap(built.verbose.val).accounts
              /\ Unwrap(built.compact.val).data = Unwrap(built.verbose.val).data

(***************************************************************************)
(* The process-wide page cache under concurrent first use (SpecOnce).      *)
(***************************************************************************)
RECURSIVE Constructions(_)
\* How many times the initializer closure was entered by threads 1..n.
Constructions(n) == IF n = 0 THEN 0 ELSE callers[n].init + Constructions(n - 1)

\* A thread holds the reference get_cached_pages returned.
HoldsPages(t) == IsSome(callers[t].seen)

\* C22: under any interleaving of concurrent first-use calls of
\* get_cached_pages, the cache is constructed at most once; a caller gets its
\* reference only once construction is complete (until then it is blocked or
\* is the initializer), and what it gets is the fully built pages of the
\* schema, the same for every caller; the cache contents never change once
\* written.
C22_CacheBuiltOnceAndStable ==
    /\ [](/\ Constructions(MaxThreads) <= 1
          /\ \A t \in Threads :
                /\ callers[t].pc = "get_page" => HoldsPages(t)
                /\ HoldsPages(t) =>
                      /\ callers[t].seen = Some(from_schema(schema))
                      /\ callers[t].seen = cached
                /\ callers[t].pc = "blocked" => initializing(callers, t) \/ IsSome(cached))
    /\ [][IsSome(cached) => cached' = cached]_vars

\* Two threads raced for the first use: one ran the initializer, another was
\* blocked meanwhile, and both now hold the pages; a later call was served.
C22_Witness ==
    /\ \E t, u \in Threads :
          /\ callers[t].init = 1 /\ callers[u].waited /\ t # u
          /\ HoldsPages(t) /\ HoldsPages(u)
          /\ callers[u].calls = MaxCalls /\ callers[u].pc = "idle"
    /\ obs.op = "list_tools" /\ obs.out # <<>>

(***************************************************************************)
(* C23: McpToolBuilder::build derives the discriminator from the name      *)
(***************************************************************************)
\* The tool of the builder once build() returned it.
AuthoredTool == Unwrap(authoring.tool)

\* A tool was written with an account, an argument and a description and
\* built, under a name whose discriminator the caller computed and that a
\* tool of the served schema carries too.
C23_Witness ==
    /\ authoring.pc = "built"
    /\ Len(AuthoredTool.accounts) >= 1
    /\ Len(AuthoredTool.args) >= 1
    /\ IsSome(AuthoredTool.description)
    /\ obs.op = "instruction_discriminator"
    /\ obs.out.name = AuthoredTool.name
    /\ \E i \in 1..Len(schema.tools) :
          /\ schema.tools[i].name = AuthoredTool.name
          /\ schema.tools[i].accounts # AuthoredTool.accounts

\* C23: every tool McpToolBuilder::build returns, whatever methods were
\* called on the builder and in whatever order, carries 8 bytes that are
\* instruction_discriminator of its name: the first 8 bytes of
\* sha256("global:" + name) whenever they are computed, and the bytes of
\* every other built tool of that name.
C23_DiscriminatorIsDerivedFromName ==
    authoring.pc = "built" =>
        /\ Len(AuthoredTool.discriminator) = 8
        /\ AuthoredTool.discriminator = instruction_discriminator(AuthoredTool.name)
        /\ (obs.op = "instruction_discriminator" /\ obs.out.name = AuthoredTool.name
              => AuthoredTool.discriminator = obs.out.discriminator)
        /\ \A i \in 1..Len(schema.tools) :
              schema.tools[i].name = AuthoredTool.name
                  => schema.tools[i].discriminator = AuthoredTool.discriminator

(***************************************************************************)
(* C25: instruction_discriminator("list_tools") is the protocol constant   *)
(***************************************************************************)
ListToolsName == <<"l", "i", "s", "t", "_", "t", "o", "o", "l", "s">>

\* The discriminator of "list_tools" was computed.
C25_Witness ==
    /\ obs.op = "instruction_discriminator"
    /\ obs.out.name = ListToolsName
    /\ Len(schema.tools) > 0

\* C25: the 8 bytes instruction_discriminator computes for a name depend on
\* the name alone, and for "list_tools" they are 42 19 5e 6a 55 fd 41 c0:
\* the LIST_TOOLS_DISCRIMINATOR constant, with which every list_tools
\* request of the client starts and which is_list_tools matches.
C25_ListToolsDiscriminator ==
    obs.op = "instruction_discriminator" =>
        /\ Len(obs.out.discriminator) = 8
        /\ obs.out.discriminator = instruction_discriminator(obs.out.name)
        /\ obs.out.name = ListToolsName =>
              /\ discriminator_to_hex(obs.out.discriminator)
                    = <<"4", "2", "1", "9", "5", "e", "6", "a",
                        "5", "5", "f", "d", "4", "1", "c", "0">>
              /\ obs.out.discriminator = LIST_TOOLS_DISCRIMINATOR
              /\ \A cursor \in 0..U8Max :
                    /\ SubSeq(list_tools_request(cursor), 1, 8) = obs.out.discriminator
                    /\ is_list_tools(list_tools_request(cursor))

(***************************************************************************)
(* C24: the size estimator against the compact encoder                     *)
(***************************************************************************)
\* The estimates and the encoded lengths the author compared.
Sized == Unwrap(authoring.sized)

\* C24: estimate_single_tool_size(tool) is at least the length of the
\* tool's compact JSON object, and estimate_schema_size(schema) at least the
\* length of generate_compact_schema(schema).
C24_EstimatorIsConservative ==
    authoring.pc = "built" /\ IsSome(authoring.sized) =>
        /\ Sized.tool_estimate >= Sized.tool_len
        /\ Sized.schema_estimate >= Sized.schema_len

(***************************************************************************)
(* C26: the p and r members of a compact tool                              *)
(***************************************************************************)
\* The objects of the "tools" array of the compact document, as written.
EmittedCompactTools ==
    Unwrap(ObjGet(ParseDocument(obs.out, FALSE).v.m, <<"t", "o", "o", "l", "s">>)).e

\* The keys a tool declares: each account's name with its suffix, then each
\* arg's name.
SuffixedKeys(tool) ==
    [i \in 1..Len(tool.accounts) |-> tool.accounts[i].name \o suffix(tool.accounts[i])]
    \o [i \in 1..Len(tool.args) |-> tool.args[i].name]

\* A compact document was written for a schema that holds a tool without
\* accounts and args and a tool with a flagged account and an arg.
C26_Witness ==
    /\ obs.op = "compact"
    /\ \E i \in 1..Len(schema.tools) :
          schema.tools[i].accounts = <<>> /\ schema.tools[i].args = <<>>
    /\ \E i \in 1..Len(schema.tools) :
          /\ schema.tools[i].args # <<>>
          /\ \E a \in 1..Len(schema.tools[i].accounts) :
                suffix(schema.tools[i].accounts[a]) # <<>>

\* C26: in the compact document a tool without accounts and args has no p
\* and no r member; any other tool has one p object and one r array, and the
\* keys of p and the elements of r are, in this order, the accounts' names
\* with their suffixes and then the args' names.
C26_CompactMembers ==
    obs.op = "compact" =>
        /\ ParseDocument(obs.out, FALSE).ok
        /\ Len(EmittedCompactTools) = Len(schema.tools)
        /\ \A i \in 1..Len(schema.tools) :
              LET tool == schema.tools[i]
                  p    == Members(EmittedCompactTools[i].m, {<<"p">>})
                  r    == Members(EmittedCompactTools[i].m, {<<"r">>})
              IN  IF tool.accounts = <<>> /\ tool.args = <<>>
                  THEN p = <<>> /\ r = <<>>
                  ELSE /\ Len(p) = 1 /\ p[1].t = "obj"
                       /\ Len(r) = 1 /\ r[1].t = "arr"
                       /\ [k \in 1..Len(p[1].m) |-> p[1].m[k][1]] = SuffixedKeys(tool)
                       /\ r[1].e = [k \in 1..Len(SuffixedKeys(tool)) |->
                                        JStr(SuffixedKeys(tool)[k])]

(***************************************************************************)
(* C27: discriminator_bytes on any discriminator text                      *)
(***************************************************************************)
\* C27: discriminator_bytes never panics, whatever the characters and the
\* length of the discriminator text of a decoded tool: it returns the bytes
\* or a ParseSchema error.
C27_DiscriminatorBytesNeverPanics ==
    built.op = "discriminator_bytes" =>
        /\ built.result # Unwound
        /\ built.result.ok \/ built.result = Err(<<"ParseSchema">>)

(***************************************************************************)
(* C28: the cursor from list_tools_page to the program's handler           *)
(***************************************************************************)
\* The vault served page 2 of three to a request that carries the cursor.
C28_Witness ==
    /\ obs.op = "list_tools_page"
    /\ obs.handler = "vault"
    /\ obs.cursor = 2
    /\ Len(schema.tools) = 3
    /\ obs.out = generate_paginated_schema_bytes(schema, 2)

\* C28: for every cursor 0..255 the instruction data of list_tools_page is
\* the discriminator alone when the cursor is 0 and the discriminator plus
\* the cursor byte otherwise; the handler is dispatched, reads the cursor
\* back from byte 8 (0 when absent) and serves the page of that cursor.
C28_HandlerServesRequestedPage ==
    obs.op = "list_tools_page" =>
        /\ obs.dispatched
        /\ (Len(obs.data) = 8) <=> (obs.cursor = 0)
        /\ obs.cursor > 0 => obs.data = LIST_TOOLS_DISCRIMINATOR \o <<obs.cursor>>
        /\ get_list_tools_cursor(obs.data) = obs.cursor
        /\ obs.out = IF obs.handler = "native"
                     THEN generate_paginated_schema_bytes(schema, obs.cursor)
                     ELSE get_page(from_schema(schema), obs.cursor)

(***************************************************************************)
(* C29: next_cursor of the schema list_tools_full returns                  *)
(***************************************************************************)
\* The schema list_tools_full returned.
ReturnedSchema == Unwrap(client.result.schema)

\* The safety cap ended the loop on a page that names a next page: 101
\* tools of 103 were gathered and next_cursor is set.
C29_Witness ==
    /\ serverMode = "native"
    /\ Returned
    /\ tool_count = SAFETY_CAP + 3
    /\ Len(fetches) = SAFETY_CAP + 1
    /\ LastPage.has_next
    /\ IsSome(ReturnedSchema.next_cursor)
    /\ Len(ReturnedSchema.tools) = SAFETY_CAP + 1

\* C29: the schema list_tools_full returns has no next_cursor exactly when
\* the last page fetched had none.  It returns on a page that names a next
\* page only when the safety cap ended the loop, after SAFETY_CAP + 1
\* fetches, and next_cursor is then set; against a program that serves its
\* schema, next_cursor is set exactly when tools are missing.
C29_NextCursorTellsTruncation ==
    Returned =>
        /\ (ReturnedSchema.next_cursor = None) <=> ~LastPage.has_next
        /\ LastPage.has_next =>
              Len(fetches) = SAFETY_CAP + 1 /\ IsSome(ReturnedSchema.next_cursor)
        /\ serverMode = "native" =>
              (IsSome(ReturnedSchema.next_cursor)
                  <=> Len(ReturnedSchema.tools) < tool_count)


(***************************************************************************)
(* C30: the macro's schema and the macro's dispatcher agree on the payload *)
(***************************************************************************)
\* The bytes of the caller's text as a value of the handler's parameter
\* type, None if the text is no value of that type.
ValueOf(rust_type, text) ==
    CASE rust_type \in {"u8", "u16", "u32", "u64"} ->
            parse_unsigned(text, Unwrap(get_type_size(rust_type)))
      [] rust_type \in {"i8", "i16", "i32", "i64"} ->
            parse_signed(text, Unwrap(get_type_size(rust_type)))
      [] OTHER -> parse_bool(text)

\* The dispatcher processed a payload the client built for the handler.
Dispatched == obs.op = "process_instruction"

\* C30: for a program generated by #[mcp_program] whose instruction takes
\* fixed-size integer arguments, the payload the client builds from the
\* macro-generated compact schema is as long as the dispatcher expects, the
\* dispatcher accepts it and the handler receives, for every argument the
\* caller supplied as a value of the parameter's type, that value.
C30_HandlerReceivesSuppliedValues ==
    Dispatched =>
        LET ix == authoring.instructions[1] IN
        /\ obs.out.ok
        /\ Len(Unwrap(built.result.val).data) = Unwrap(calculate_expected_len(ix.args))
        /\ \A i \in 1..Len(ix.args) :
              LET supplied == ValueOf(ix.args[i].rust_type, built.args[i][2]) IN
              IsSome(supplied) => Unwrap(obs.out.val).received[i] = Unwrap(supplied)

=============================================================================
